---- MODULE Spec2Model ----
(***************************************************************************)
(* Model of the annotation duplication engine                              *)
(* (packages/plugin-annotation/src/lib/utils/duplicate-to-all-pages.ts,    *)
(* carried in the second half of duplicate-to-all-pages.test.ts).          *)
(*                                                                         *)
(* Coordinates are JavaScript numbers in the source; the model draws them  *)
(* from a bounded range of integers, on which Math.min, Math.max, - and    *)
(* !== behave exactly as they do on the corresponding doubles.             *)
(***************************************************************************)
EXTENDS Integers, Sequences, FiniteSets

VARIABLES
    sourceAnnotation,   \* argument: the annotation to duplicate
    pages,              \* argument: all pages of the document
    options,            \* argument: options.includeSourcePage ("undefined" when unset)
    pc,                 \* position inside generateDuplicateAnnotations
    sourcePage,         \* local: result of pages.find(...)
    idx,                \* local: position of the for-of loop in pages (1-based)
    annotations,        \* local: T[] being accumulated
    clippedPages,       \* local: number[] being accumulated
    console,            \* console.warn calls made so far
    thrown,             \* the Error thrown by the call, or NoError
    uuidCount,          \* number of uuidV4() draws made so far
    clock,              \* the time new Date() last returned; it never runs backwards
    second,             \* arguments and locals of a second invocation, or NoCall
    \* useAnnotationClipboard (src/unnamed/part_000)
    capability,         \* useAnnotationCapability().provides, or Undefined
    scrollState,        \* useScroll().state, or Undefined
    readTextSupported,  \* typeof navigator.clipboard.readText === 'function'
    clipboard,          \* the text on the system clipboard
    canPaste,           \* useState(false)
    mounted,            \* the effect has run and its listeners are registered
    checks,             \* checkClipboard runs awaiting readText(): what each will receive
    copy,               \* the copyAnnotation call: its position and locals
    paste,              \* the pasteAnnotation call: its position and locals
    calls               \* the calls made on the annotation capability, in order

\* the state of the clipboard hook
hook == <<capability, scrollState, readTextSupported, clipboard, canPaste, mounted,
          checks, copy, paste, calls>>

vars == <<sourceAnnotation, pages, options, pc, sourcePage, idx, annotations,
          clippedPages, console, thrown, uuidCount, clock, second, hook>>

----------------------------------------------------------------------------
(* Bounds of the model *)

\* largest coordinate and largest rect dimension of an input annotation
MaxCoord == 2
\* largest stored page width / height
MaxDim == 2
\* largest number of pages of a document in the orchestration specification
MaxPages == 2

Coord == -1..MaxCoord
Extent == 0..MaxCoord
Dim == 0..MaxDim
PageIndexes == 0..MaxPages

----------------------------------------------------------------------------
(* Values of @embedpdf/models used by the engine *)

Rotations == {"Degree0", "Degree90", "Degree180", "Degree270"}

SimpleSubtypes == {"SQUARE"}
PathSubtypes == {"INK", "POLYGON", "POLYLINE", "LINE"}

Undefined == [undefined |-> TRUE]
NoError == [error |-> FALSE]

Date(t) == [time |-> t]
Position(x, y) == [x |-> x, y |-> y]
Size(w, h) == [width |-> w, height |-> h]
Rect(x, y, w, h) == [origin |-> Position(x, y), size |-> Size(w, h)]
Page(index, w, h, rotation) == [index |-> index, size |-> Size(w, h), rotation |-> rotation]

\* Math.max / Math.min
Max(a, b) == IF a >= b THEN a ELSE b
Min(a, b) == IF a <= b THEN a ELSE b

----------------------------------------------------------------------------
(* Page Geometry Resolver and Bounds Clipper *)

\* mutant: width and height are swapped whatever the rotation
getRotatedPageSize_swapAlways(page) == Size(page.size.height, page.size.width)

\* mutant: Degree270 is forgotten
getRotatedPageSize_only90(page) ==
    IF page.rotation = "Degree90"
    THEN Size(page.size.height, page.size.width)
    ELSE Size(page.size.width, page.size.height)

getRotatedPageSize(page) ==
    LET isRotated90or270 == page.rotation = "Degree90" \/ page.rotation = "Degree270"
    IN  IF isRotated90or270
        THEN Size(page.size.height, page.size.width)
        ELSE Size(page.size.width, page.size.height)

\* mutant: the lower bound is not applied
clamp_noLowerBound(value, min, max) == Min(max, value)

\* mutant: the upper bound is exclusive
clamp_exclusiveMax(value, min, max) == Max(min, Min(max - 1, value))

clamp(value, min, max) == Max(min, Min(max, value))

\* mutant: an overflowing rect is moved back inside instead of truncated
clipRectToPageBounds_shift(rect, pageSize) ==
    LET clippedWidth == Min(rect.size.width, pageSize.width)
        clippedHeight == Min(rect.size.height, pageSize.height)
        clippedX == clamp(rect.origin.x, 0, pageSize.width - clippedWidth)
        clippedY == clamp(rect.origin.y, 0, pageSize.height - clippedHeight)
    IN  [rect |-> [origin |-> Position(clippedX, clippedY),
                   size |-> Size(Max(0, clippedWidth), Max(0, clippedHeight))],
         wasClipped |-> \/ clippedX # rect.origin.x
                        \/ clippedY # rect.origin.y
                        \/ clippedWidth # rect.size.width
                        \/ clippedHeight # rect.size.height]

\* mutant: the far edge is clamped and the size taken from it
clipRectToPageBounds_farEdge(rect, pageSize) ==
    LET clippedX == clamp(rect.origin.x, 0, pageSize.width)
        clippedY == clamp(rect.origin.y, 0, pageSize.height)
        clippedWidth == Min(rect.size.width, pageSize.width) - clippedX
        clippedHeight == Min(rect.size.height, pageSize.height) - clippedY
    IN  [rect |-> [origin |-> Position(clippedX, clippedY),
                   size |-> Size(Max(0, clippedWidth), Max(0, clippedHeight))],
         wasClipped |-> \/ clippedX # rect.origin.x
                        \/ clippedY # rect.origin.y
                        \/ clippedWidth # rect.size.width
                        \/ clippedHeight # rect.size.height]

\* mutant: a rect that ends exactly on an edge of the page is reported too
clipRectToPageBounds_touchFlag(rect, pageSize) ==
    LET clippedX == clamp(rect.origin.x, 0, pageSize.width)
        clippedY == clamp(rect.origin.y, 0, pageSize.height)
        clippedWidth == Min(rect.size.width, pageSize.width - clippedX)
        clippedHeight == Min(rect.size.height, pageSize.height - clippedY)
    IN  [rect |-> [origin |-> Position(clippedX, clippedY),
                   size |-> Size(Max(0, clippedWidth), Max(0, clippedHeight))],
         wasClipped |-> \/ clippedX # rect.origin.x
                        \/ clippedY # rect.origin.y
                        \/ rect.origin.x + rect.size.width >= pageSize.width
                        \/ rect.origin.y + rect.size.height >= pageSize.height]

\* mutant: only an overflow of the far edges is reported
clipRectToPageBounds_overflowFlag(rect, pageSize) ==
    LET clippedX == clamp(rect.origin.x, 0, pageSize.width)
        clippedY == clamp(rect.origin.y, 0, pageSize.height)
        clippedWidth == Min(rect.size.width, pageSize.width - clippedX)
        clippedHeight == Min(rect.size.height, pageSize.height - clippedY)
    IN  [rect |-> [origin |-> Position(clippedX, clippedY),
                   size |-> Size(Max(0, clippedWidth), Max(0, clippedHeight))],
         wasClipped |-> \/ rect.origin.x + rect.size.width > pageSize.width
                        \/ rect.origin.y + rect.size.height > pageSize.height]

\* mutant: a page without width or height is taken as having no bounds
clipRectToPageBounds_skipEmptyPage(rect, pageSize) ==
    IF pageSize.width = 0 \/ pageSize.height = 0
    THEN [rect |-> rect, wasClipped |-> FALSE]
    ELSE LET clippedX == clamp(rect.origin.x, 0, pageSize.width)
             clippedY == clamp(rect.origin.y, 0, pageSize.height)
             clippedWidth == Min(rect.size.width, pageSize.width - clippedX)
             clippedHeight == Min(rect.size.height, pageSize.height - clippedY)
         IN  [rect |-> [origin |-> Position(clippedX, clippedY),
                        size |-> Size(Max(0, clippedWidth), Max(0, clippedHeight))],
              wasClipped |-> \/ clippedX # rect.origin.x
                             \/ clippedY # rect.origin.y
                             \/ clippedWidth # rect.size.width
                             \/ clippedHeight # rect.size.height]

\* mutant: a change of height alone is not reported
clipRectToPageBounds_noHeightFlag(rect, pageSize) ==
    LET maxX == pageSize.width
        maxY == pageSize.height
        clippedX == clamp(rect.origin.x, 0, maxX)
        clippedY == clamp(rect.origin.y, 0, maxY)
        clippedWidth == Min(rect.size.width, maxX - clippedX)
        clippedHeight == Min(rect.size.height, maxY - clippedY)
    IN  [rect |-> [origin |-> Position(clippedX, clippedY),
                   size |-> Size(Max(0, clippedWidth), Max(0, clippedHeight))],
         wasClipped |-> \/ clippedX # rect.origin.x
                        \/ clippedY # rect.origin.y
                        \/ clippedWidth # rect.size.width]

clipRectToPageBounds(rect, pageSize) ==
    LET maxX == pageSize.width
        maxY == pageSize.height
        clippedX == clamp(rect.origin.x, 0, maxX)
        clippedY == clamp(rect.origin.y, 0, maxY)
        maxWidth == maxX - clippedX
        maxHeight == maxY - clippedY
        clippedWidth == Min(rect.size.width, maxWidth)
        clippedHeight == Min(rect.size.height, maxHeight)
        clippedRect == [origin |-> Position(clippedX, clippedY),
                        size |-> Size(Max(0, clippedWidth), Max(0, clippedHeight))]
        wasClipped == \/ clippedX # rect.origin.x
                      \/ clippedY # rect.origin.y
                      \/ clippedWidth # rect.size.width
                      \/ clippedHeight # rect.size.height
    IN  [rect |-> clippedRect, wasClipped |-> wasClipped]

\* mutant: only x is clamped
clipPositionToPageBounds_keepY(position, pageSize) ==
    LET clippedX == clamp(position.x, 0, pageSize.width)
    IN  [position |-> Position(clippedX, position.y),
         wasClipped |-> clippedX # position.x]

clipPositionToPageBounds(position, pageSize) ==
    LET clippedX == clamp(position.x, 0, pageSize.width)
        clippedY == clamp(position.y, 0, pageSize.height)
    IN  [position |-> Position(clippedX, clippedY),
         wasClipped |-> (clippedX # position.x \/ clippedY # position.y)]

\* mutant: the rect is kept within the source page as well as the target page
transformRectForTargetPage_withinSource(rect, _sourcePage, targetPage) ==
    LET targetSize == getRotatedPageSize(targetPage)
        sourceSize == getRotatedPageSize(_sourcePage)
    IN  clipRectToPageBounds(rect, Size(Min(sourceSize.width, targetSize.width),
                                        Min(sourceSize.height, targetSize.height)))

transformRectForTargetPage(rect, _sourcePage, targetPage) ==
    LET targetSize == getRotatedPageSize(targetPage)
    IN  clipRectToPageBounds(rect, targetSize)

transformPositionForTargetPage(position, _sourcePage, targetPage) ==
    LET targetSize == getRotatedPageSize(targetPage)
    IN  clipPositionToPageBounds(position, targetSize)

----------------------------------------------------------------------------
(* Shape Transformer *)

\* mutant: the points of all strokes end up in the first stroke
transformInkAnnotation_merged(annotation, _sourcePage, targetPage) ==
    LET targetSize == getRotatedPageSize(targetPage)
        result(point) == clipPositionToPageBounds(point, targetSize)
        Merged[s \in 0..Len(annotation.inkList)] ==
            IF s = 0 THEN <<>>
            ELSE Merged[s - 1] \o
                 [k \in 1..Len(annotation.inkList[s].points) |->
                    result(annotation.inkList[s].points[k]).position]
        pointClipped ==
            \E s \in 1..Len(annotation.inkList) :
                \E k \in 1..Len(annotation.inkList[s].points) :
                    result(annotation.inkList[s].points[k]).wasClipped
        rectResult == transformRectForTargetPage(annotation.rect, _sourcePage, targetPage)
    IN  [annotation |->
            [annotation EXCEPT !.inkList = IF annotation.inkList = <<>> THEN <<>>
                                           ELSE <<[points |-> Merged[Len(annotation.inkList)]]>>,
                               !.rect = rectResult.rect],
         wasClipped |-> pointClipped \/ rectResult.wasClipped]

\* ink.points.map(point => clipPositionToPageBounds(point, targetSize))
transformInkAnnotation(annotation, _sourcePage, targetPage) ==
    LET targetSize == getRotatedPageSize(targetPage)
        result(point) == clipPositionToPageBounds(point, targetSize)
        transformedInkList ==
            [s \in 1..Len(annotation.inkList) |->
                [points |-> [k \in 1..Len(annotation.inkList[s].points) |->
                                result(annotation.inkList[s].points[k]).position]]]
        pointClipped ==
            \E s \in 1..Len(annotation.inkList) :
                \E k \in 1..Len(annotation.inkList[s].points) :
                    result(annotation.inkList[s].points[k]).wasClipped
        rectResult == transformRectForTargetPage(annotation.rect, _sourcePage, targetPage)
        wasClipped == pointClipped \/ rectResult.wasClipped
    IN  [annotation |-> [annotation EXCEPT !.inkList = transformedInkList,
                                           !.rect = rectResult.rect],
         wasClipped |-> wasClipped]

\* mutant: the polygon is rebuilt from its geometry and its style is dropped
transformPolygonAnnotation_rebuilt(annotation, _sourcePage, targetPage) ==
    LET result(vertex) == transformPositionForTargetPage(vertex, _sourcePage, targetPage)
        rectResult == transformRectForTargetPage(annotation.rect, _sourcePage, targetPage)
    IN  [annotation |->
            [id |-> annotation.id, pageIndex |-> annotation.pageIndex,
             type |-> annotation.type, created |-> annotation.created,
             rect |-> rectResult.rect,
             vertices |-> [k \in 1..Len(annotation.vertices) |->
                              result(annotation.vertices[k]).position]],
         wasClipped |-> \/ rectResult.wasClipped
                        \/ \E k \in 1..Len(annotation.vertices) :
                                result(annotation.vertices[k]).wasClipped]

transformPolygonAnnotation(annotation, _sourcePage, targetPage) ==
    LET result(vertex) == transformPositionForTargetPage(vertex, _sourcePage, targetPage)
        transformedVertices ==
            [k \in 1..Len(annotation.vertices) |-> result(annotation.vertices[k]).position]
        vertexClipped ==
            \E k \in 1..Len(annotation.vertices) : result(annotation.vertices[k]).wasClipped
        rectResult == transformRectForTargetPage(annotation.rect, _sourcePage, targetPage)
        wasClipped == vertexClipped \/ rectResult.wasClipped
    IN  [annotation |-> [annotation EXCEPT !.vertices = transformedVertices,
                                           !.rect = rectResult.rect],
         wasClipped |-> wasClipped]

transformPolylineAnnotation(annotation, _sourcePage, targetPage) ==
    LET result(vertex) == transformPositionForTargetPage(vertex, _sourcePage, targetPage)
        transformedVertices ==
            [k \in 1..Len(annotation.vertices) |-> result(annotation.vertices[k]).position]
        vertexClipped ==
            \E k \in 1..Len(annotation.vertices) : result(annotation.vertices[k]).wasClipped
        rectResult == transformRectForTargetPage(annotation.rect, _sourcePage, targetPage)
        wasClipped == vertexClipped \/ rectResult.wasClipped
    IN  [annotation |-> [annotation EXCEPT !.vertices = transformedVertices,
                                           !.rect = rectResult.rect],
         wasClipped |-> wasClipped]

\* mutant: the clip result of the end point is left out of the flag
transformLineAnnotation_startOnly(annotation, _sourcePage, targetPage) ==
    LET startResult ==
            transformPositionForTargetPage(annotation.linePoints.start, _sourcePage, targetPage)
        endResult ==
            transformPositionForTargetPage(annotation.linePoints.end, _sourcePage, targetPage)
        rectResult == transformRectForTargetPage(annotation.rect, _sourcePage, targetPage)
    IN  [annotation |-> [annotation EXCEPT !.linePoints = [start |-> startResult.position,
                                                            end |-> endResult.position],
                                           !.rect = rectResult.rect],
         wasClipped |-> startResult.wasClipped \/ rectResult.wasClipped]

transformLineAnnotation(annotation, _sourcePage, targetPage) ==
    LET startResult ==
            transformPositionForTargetPage(annotation.linePoints.start, _sourcePage, targetPage)
        endResult ==
            transformPositionForTargetPage(annotation.linePoints.end, _sourcePage, targetPage)
        rectResult == transformRectForTargetPage(annotation.rect, _sourcePage, targetPage)
        wasClipped == (startResult.wasClipped \/ endResult.wasClipped) \/ rectResult.wasClipped
    IN  [annotation |-> [annotation EXCEPT !.linePoints = [start |-> startResult.position,
                                                            end |-> endResult.position],
                                           !.rect = rectResult.rect],
         wasClipped |-> wasClipped]

\* default branch of the switch: simple annotations, only the rect is transformed
transformSimpleAnnotation(annotation, _sourcePage, targetPage) ==
    LET rectResult == transformRectForTargetPage(annotation.rect, _sourcePage, targetPage)
    IN  [annotation |-> [annotation EXCEPT !.rect = rectResult.rect],
         wasClipped |-> rectResult.wasClipped]

transformAnnotationForTargetPage(annotation, _sourcePage, targetPage) ==
    CASE annotation.type = "INK" ->
            transformInkAnnotation(annotation, _sourcePage, targetPage)
      [] annotation.type = "POLYGON" ->
            transformPolygonAnnotation(annotation, _sourcePage, targetPage)
      [] annotation.type = "POLYLINE" ->
            transformPolylineAnnotation(annotation, _sourcePage, targetPage)
      [] annotation.type = "LINE" ->
            transformLineAnnotation(annotation, _sourcePage, targetPage)
      [] OTHER ->
            transformSimpleAnnotation(annotation, _sourcePage, targetPage)

----------------------------------------------------------------------------
(* Duplication Orchestrator *)

\* uuidV4() of @embedpdf/models: the n-th draw of the generator; no two draws
\* agree and no draw equals an id that already exists
uuidV4(n) == <<"uuid", n>>

\* mutant: pageIndex is not overwritten
createDuplicateAnnotation_keepPageIndex(annotation, _sourcePage, targetPage, newId, now) ==
    LET transformed == transformAnnotationForTargetPage(annotation, _sourcePage, targetPage)
    IN  [annotation |-> [transformed.annotation EXCEPT !.id = newId, !.created = now],
         wasClipped |-> transformed.wasClipped]

\* mutant: the spread of the transformed annotation comes last and restores its id
createDuplicateAnnotation_keepId(annotation, _sourcePage, targetPage, newId, now) ==
    LET transformed == transformAnnotationForTargetPage(annotation, _sourcePage, targetPage)
    IN  [annotation |-> [transformed.annotation EXCEPT !.pageIndex = targetPage.index,
                                                       !.created = now],
         wasClipped |-> transformed.wasClipped]

\* mutant: the creation date of the source is carried over
createDuplicateAnnotation_keepCreated(annotation, _sourcePage, targetPage, newId, now) ==
    LET transformed == transformAnnotationForTargetPage(annotation, _sourcePage, targetPage)
    IN  [annotation |-> [transformed.annotation EXCEPT !.id = newId,
                                                       !.pageIndex = targetPage.index],
         wasClipped |-> transformed.wasClipped]

\* newId and now are the values uuidV4() and new Date() return in this call
createDuplicateAnnotation(annotation, _sourcePage, targetPage, newId, now) ==
    LET transformed == transformAnnotationForTargetPage(annotation, _sourcePage, targetPage)
        duplicatedAnnotation == [transformed.annotation EXCEPT !.id = newId,
                                                               !.pageIndex = targetPage.index,
                                                               !.created = now]
    IN  [annotation |-> duplicatedAnnotation, wasClipped |-> transformed.wasClipped]

\* mutant: the option defaults to true
includeSourcePage_defaultTrue == options.includeSourcePage # "false"

\* const { includeSourcePage = false } = options
includeSourcePage == IF options.includeSourcePage = "undefined"
                     THEN FALSE
                     ELSE options.includeSourcePage = "true"

\* mutant: a miss falls back to the first page
find_orFirst(pageList, pageIndex) ==
    LET hits == {k \in 1..Len(pageList) : pageList[k].index = pageIndex}
    IN  IF hits = {}
        THEN pageList[1]
        ELSE pageList[CHOOSE k \in hits : \A j \in hits : k <= j]

\* pages.find((p) => p.index === pageIndex): the first match, or undefined
find(pageList, pageIndex) ==
    LET hits == {k \in 1..Len(pageList) : pageList[k].index = pageIndex}
    IN  IF hits = {}
        THEN Undefined
        ELSE pageList[CHOOSE k \in hits : \A j \in hits : k <= j]

\* mutant: the message gives the rotation-adjusted size of the target page
Warning_rotatedSize(annotation, targetPage) ==
    [annotationId |-> annotation.id,
     pageIndex |-> targetPage.index,
     targetWidth |-> getRotatedPageSize(targetPage).width,
     targetHeight |-> getRotatedPageSize(targetPage).height]

\* the console.warn of the loop body: the message interpolates the id of the
\* source annotation, the index of the target page and the stored width and
\* height of the target page, and nothing else
Warning(annotation, targetPage) ==
    [annotationId |-> annotation.id,
     pageIndex |-> targetPage.index,
     targetWidth |-> targetPage.size.width,
     targetHeight |-> targetPage.size.height]

SourcePageFound ==
    /\ pc = "find"
    /\ find(pages, sourceAnnotation.pageIndex) # Undefined
    /\ sourcePage' = find(pages, sourceAnnotation.pageIndex)
    /\ annotations' = <<>>
    /\ clippedPages' = <<>>
    /\ idx' = 1
    /\ pc' = "loop"
    /\ UNCHANGED <<sourceAnnotation, pages, options, console, thrown, uuidCount, clock, second, hook>>

SourcePageNotFound ==
    /\ pc = "find"
    /\ find(pages, sourceAnnotation.pageIndex) = Undefined
    /\ thrown' = [error |-> TRUE,
                  message |-> "Source page not found for annotation on page",
                  pageIndex |-> sourceAnnotation.pageIndex]
    /\ pc' = "thrown"
    /\ UNCHANGED <<sourceAnnotation, pages, options, sourcePage, idx, annotations,
                   clippedPages, console, uuidCount, clock, second, hook>>

SkipSourcePage ==
    /\ pc = "loop"
    /\ idx <= Len(pages)
    /\ ~includeSourcePage /\ pages[idx].index = sourceAnnotation.pageIndex
    /\ idx' = idx + 1
    /\ UNCHANGED <<sourceAnnotation, pages, options, pc, sourcePage, annotations,
                   clippedPages, console, thrown, uuidCount, clock, second, hook>>

DuplicateToPage ==
    /\ pc = "loop"
    /\ idx <= Len(pages)
    /\ ~(~includeSourcePage /\ pages[idx].index = sourceAnnotation.pageIndex)
    /\ \E now \in {clock, clock + 1} :
        LET targetPage == pages[idx]
            dup == createDuplicateAnnotation(sourceAnnotation, sourcePage, targetPage,
                                             uuidV4(uuidCount + 1), Date(now))
        IN  /\ annotations' = Append(annotations, dup.annotation)
            /\ IF dup.wasClipped
               THEN /\ clippedPages' = Append(clippedPages, targetPage.index)
                    /\ console' = Append(console, Warning(sourceAnnotation, targetPage))
               ELSE UNCHANGED <<clippedPages, console>>
            /\ clock' = now
    /\ uuidCount' = uuidCount + 1
    /\ idx' = idx + 1
    /\ UNCHANGED <<sourceAnnotation, pages, options, pc, sourcePage, thrown, second, hook>>

ReturnResult ==
    /\ pc = "loop"
    /\ idx > Len(pages)
    /\ pc' = "done"
    /\ UNCHANGED <<sourceAnnotation, pages, options, sourcePage, idx, annotations,
                   clippedPages, console, thrown, uuidCount, clock, second, hook>>

Next ==
    \/ SourcePageFound
    \/ SourcePageNotFound
    \/ SkipSourcePage
    \/ DuplicateToPage
    \/ ReturnResult

----------------------------------------------------------------------------
(* Inputs *)

SourceId == <<"anno-1">>

\* the attributes the engine never interprets, as the test helpers set them
Passthrough(type) ==
    CASE type = "SQUARE" -> [color |-> "#FF0000", strokeWidth |-> "1", flags |-> <<"print">>]
      [] type = "INK" -> [color |-> "#0000FF", strokeWidth |-> "2", flags |-> <<>>]
      [] OTHER -> [color |-> "#00FF00", strokeWidth |-> "1", flags |-> <<>>]

Base(type, pageIndex, rect, created) ==
    [id |-> SourceId, pageIndex |-> pageIndex, type |-> type, rect |-> rect,
     created |-> created, color |-> Passthrough(type).color,
     strokeWidth |-> Passthrough(type).strokeWidth, flags |-> Passthrough(type).flags]

SquareAnnotation(pageIndex, rect, created) ==
    Base("SQUARE", pageIndex, rect, created)

InkAnnotation(pageIndex, rect, inkList, created) ==
    [f \in DOMAIN Base("INK", pageIndex, rect, created) \cup {"inkList"} |->
        IF f = "inkList" THEN inkList ELSE Base("INK", pageIndex, rect, created)[f]]

VertexAnnotation(type, pageIndex, rect, vertices, created) ==
    [f \in DOMAIN Base(type, pageIndex, rect, created) \cup {"vertices"} |->
        IF f = "vertices" THEN vertices ELSE Base(type, pageIndex, rect, created)[f]]

LineAnnotation(pageIndex, rect, start, end, created) ==
    [f \in DOMAIN Base("LINE", pageIndex, rect, created) \cup {"linePoints"} |->
        IF f = "linePoints" THEN [start |-> start, end |-> end]
        ELSE Base("LINE", pageIndex, rect, created)[f]]

\* the points of all strokes of an ink list, in order
InkPoints(inkList) ==
    LET Flat[s \in 0..Len(inkList)] ==
            IF s = 0 THEN <<>> ELSE Flat[s - 1] \o inkList[s].points
    IN  Flat[Len(inkList)]

\* every point of an annotation, as a sequence (empty for a simple annotation)
PointsOf(annotation) ==
    CASE annotation.type = "INK" -> InkPoints(annotation.inkList)
      [] annotation.type \in {"POLYGON", "POLYLINE"} -> annotation.vertices
      [] annotation.type = "LINE" -> <<annotation.linePoints.start, annotation.linePoints.end>>
      [] OTHER -> <<>>

\* the points of path annotations: the two diagonals of the coordinate square,
\* on which each coordinate takes every value, alone and together with the other
Points ==
    {Position(x, x) : x \in Coord} \cup {Position(x, MaxCoord - 1 - x) : x \in Coord}

SetMin(S) == CHOOSE m \in S : \A n \in S : m <= n
SetMax(S) == CHOOSE m \in S : \A n \in S : m >= n

\* the bounding box of a non-empty sequence of points, grown by pad on each side
BoundingRect(pts, pad) ==
    LET xs == {pts[k].x : k \in 1..Len(pts)}
        ys == {pts[k].y : k \in 1..Len(pts)}
    IN  Rect(SetMin(xs) - pad, SetMin(ys) - pad,
             SetMax(xs) - SetMin(xs) + 2 * pad, SetMax(ys) - SetMin(ys) + 2 * pad)

\* the rects a path annotation over pts comes with: its bounding box, the
\* bounding box grown by the stroke, and a stale zero-size rect at its first point
PathRects(pts) ==
    {BoundingRect(pts, 0), BoundingRect(pts, 1), Rect(pts[1].x, pts[1].y, 0, 0)}

PointPairs == {<<p, q>> : p \in Points, q \in Points}

InkLists ==
    {<<[points |-> pq]>> : pq \in PointPairs}
    \cup {<<[points |-> <<pq[1]>>], [points |-> <<pq[2]>>]>> : pq \in PointPairs}

\* the annotations of the geometry specification, all on page 0
GeomSquares ==
    {SquareAnnotation(0, Rect(x, y, w, h), Undefined) :
        x \in Coord, y \in Coord, w \in Extent, h \in Extent}

GeomInks ==
    UNION {{InkAnnotation(0, r, l, Undefined) :
                r \in PathRects(InkPoints(l))} : l \in InkLists}

GeomVertexAnnotations(type) ==
    UNION {{VertexAnnotation(type, 0, r, pq, Undefined) : r \in PathRects(pq)} :
                pq \in PointPairs}

GeomLines ==
    UNION {{LineAnnotation(0, r, pq[1], pq[2], Undefined) : r \in PathRects(pq)} :
                pq \in PointPairs}

\* malformed geometry the types still allow: rects of negative size, an ink
\* list without strokes, strokes without points, vertex lists without vertices
MalformedAnnotations ==
    {SquareAnnotation(0, Rect(x, y, wh[1], wh[2]), Undefined) :
        x \in {0, MaxCoord}, y \in {0, MaxCoord}, wh \in {<<-1, -1>>, <<-1, 1>>, <<1, -1>>}}
    \cup {InkAnnotation(0, Rect(0, 0, 0, 0), l, Undefined) :
            l \in {<<>>, <<[points |-> <<>>]>>,
                   <<[points |-> <<>>], [points |-> <<Position(MaxCoord, MaxCoord)>>]>>}}
    \cup {VertexAnnotation(t, 0, Rect(0, 0, 0, 0), <<>>, Undefined) :
            t \in {"POLYGON", "POLYLINE"}}

GeomAnnotations ==
    GeomSquares \cup GeomInks \cup GeomVertexAnnotations("POLYGON")
    \cup GeomVertexAnnotations("POLYLINE") \cup GeomLines \cup MalformedAnnotations

TargetPages(index) ==
    {Page(index, w, h, r) : w \in Dim, h \in Dim, r \in Rotations}

\* the annotations of the orchestration specification: one shape of each
\* kind that fits every page, and shapes that overflow the smaller pages; the
\* squares carry a creation date, the others none
OrchShapes(pageIndex) ==
    {SquareAnnotation(pageIndex, Rect(0, 0, 1, 1), Date(0)),
     SquareAnnotation(pageIndex, Rect(1, 1, 1, 1), Date(1)),
     InkAnnotation(pageIndex, Rect(0, 0, 2, 1),
                   <<[points |-> <<Position(0, 0), Position(1, 1)>>],
                     [points |-> <<Position(2, 1)>>]>>, Undefined),
     VertexAnnotation("POLYGON", pageIndex, Rect(0, 0, 1, 2),
                      <<Position(0, 0), Position(1, 0), Position(1, 2)>>, Undefined),
     VertexAnnotation("POLYLINE", pageIndex, Rect(0, 0, 1, 1),
                      <<Position(0, 1), Position(1, 0)>>, Undefined),
     LineAnnotation(pageIndex, Rect(0, 1, 2, 1), Position(0, 2), Position(2, 1), Undefined)}

\* the source annotation is on page 0 or on page 1; the page lists below
\* place either page anywhere or leave it out
OrchAnnotations == UNION {OrchShapes(i) : i \in {0, 1}}

OrchPageShapes ==
    {Page(0, MaxDim, MaxDim, "Degree0"), Page(0, 1, MaxDim, "Degree90"),
     Page(0, MaxDim, 1, "Degree270")}

\* page lists of 1..MaxPages pages with pairwise different indexes, in any order
RECURSIVE PageLists(_)
PageLists(n) ==
    IF n = 0
    THEN {<<>>}
    ELSE UNION {{Append(l, [p EXCEPT !.index = i]) :
                    i \in {j \in PageIndexes : \A k \in 1..Len(l) : l[k].index # j},
                    p \in OrchPageShapes} : l \in PageLists(n - 1)}

OrchPageLists == UNION {PageLists(n) : n \in 1..MaxPages}

Options == {[includeSourcePage |-> v] : v \in {"undefined", "true", "false"}}

\* no second invocation
NoCall == [pc |-> "none"]

\* the first invocation and the shared generator, clock and console at the call
InitFirst ==
    /\ pc = "find"
    /\ sourcePage = Undefined
    /\ idx = 0
    /\ annotations = <<>>
    /\ clippedPages = <<>>
    /\ console = <<>>
    /\ thrown = NoError
    /\ uuidCount = 0
    /\ clock = 1

\* the clipboard hook is not in use
HookUnused ==
    /\ capability = Undefined
    /\ scrollState = Undefined
    /\ readTextSupported = TRUE
    /\ clipboard = [kind |-> "empty"]
    /\ canPaste = FALSE
    /\ mounted = FALSE
    /\ checks = <<>>
    /\ copy = [pc |-> "idle"]
    /\ paste = [pc |-> "idle"]
    /\ calls = <<>>

InitCall ==
    /\ second = NoCall
    /\ HookUnused
    /\ InitFirst

\* generateDuplicateAnnotations called on whole documents
Init ==
    /\ sourceAnnotation \in OrchAnnotations
    /\ pages \in OrchPageLists
    /\ options \in Options
    /\ InitCall

Spec == Init /\ [][Next]_vars

\* generateDuplicateAnnotations called on a two-page document, the unrotated
\* page 0 carrying the annotation and page 1 of any size and rotation; a few
\* calls on a document that lacks page 0
InitGeom ==
    /\ sourceAnnotation \in GeomAnnotations
    /\ \E target \in TargetPages(1) :
        \/ pages = <<Page(0, 1, MaxDim, "Degree0"), target>>
        \/ /\ sourceAnnotation.rect = Rect(0, 0, 0, 0)
           /\ pages = <<target>>
    /\ options = [includeSourcePage |-> "undefined"]
    /\ InitCall

SpecGeom == InitGeom /\ [][Next]_vars

----------------------------------------------------------------------------
(* Two invocations whose steps interleave. Each has its own arguments and
   locals; the id generator, the clock and the console are the module's and
   are shared. The steps of the second invocation are those of the first,
   taken on the record second. *)

\* const { includeSourcePage = false } = options, for the options of any call
includeSourcePageOf(opts) ==
    IF opts.includeSourcePage = "undefined" THEN FALSE ELSE opts.includeSourcePage = "true"

first == <<sourceAnnotation, pages, options, pc, sourcePage, idx, annotations,
           clippedPages, thrown>>

SecondSourcePageFound ==
    /\ second.pc = "find"
    /\ find(second.pages, second.sourceAnnotation.pageIndex) # Undefined
    /\ second' = [second EXCEPT
                    !.sourcePage = find(second.pages, second.sourceAnnotation.pageIndex),
                    !.annotations = <<>>,
                    !.clippedPages = <<>>,
                    !.idx = 1,
                    !.pc = "loop"]
    /\ UNCHANGED <<first, console, uuidCount, clock, hook>>

SecondSourcePageNotFound ==
    /\ second.pc = "find"
    /\ find(second.pages, second.sourceAnnotation.pageIndex) = Undefined
    /\ second' = [second EXCEPT
                    !.thrown = [error |-> TRUE,
                                message |-> "Source page not found for annotation on page",
                                pageIndex |-> second.sourceAnnotation.pageIndex],
                    !.pc = "thrown"]
    /\ UNCHANGED <<first, console, uuidCount, clock, hook>>

SecondSkipSourcePage ==
    /\ second.pc = "loop"
    /\ second.idx <= Len(second.pages)
    /\ ~includeSourcePageOf(second.options)
    /\ second.pages[second.idx].index = second.sourceAnnotation.pageIndex
    /\ second' = [second EXCEPT !.idx = second.idx + 1]
    /\ UNCHANGED <<first, console, uuidCount, clock, hook>>

\* mutant: clippedPages is one array of the module, shared by all invocations
SecondDuplicateToPage_sharedClippedPages ==
    /\ second.pc = "loop"
    /\ second.idx <= Len(second.pages)
    /\ ~(/\ ~includeSourcePageOf(second.options)
          /\ second.pages[second.idx].index = second.sourceAnnotation.pageIndex)
    /\ \E now \in {clock, clock + 1} :
        LET targetPage == second.pages[second.idx]
            dup == createDuplicateAnnotation(second.sourceAnnotation, second.sourcePage,
                                             targetPage, uuidV4(uuidCount + 1), Date(now))
        IN  /\ IF dup.wasClipped
               THEN /\ second' = [second EXCEPT
                                    !.annotations = Append(second.annotations, dup.annotation),
                                    !.clippedPages = Append(clippedPages, targetPage.index),
                                    !.idx = second.idx + 1]
                    /\ clippedPages' = Append(clippedPages, targetPage.index)
                    /\ console' = Append(console, Warning(second.sourceAnnotation, targetPage))
               ELSE /\ second' = [second EXCEPT
                                    !.annotations = Append(second.annotations, dup.annotation),
                                    !.idx = second.idx + 1]
                    /\ UNCHANGED <<clippedPages, console>>
            /\ clock' = now
    /\ uuidCount' = uuidCount + 1
    /\ UNCHANGED <<sourceAnnotation, pages, options, pc, sourcePage, idx, annotations, thrown,
                   hook>>

SecondDuplicateToPage ==
    /\ second.pc = "loop"
    /\ second.idx <= Len(second.pages)
    /\ ~(/\ ~includeSourcePageOf(second.options)
          /\ second.pages[second.idx].index = second.sourceAnnotation.pageIndex)
    /\ \E now \in {clock, clock + 1} :
        LET targetPage == second.pages[second.idx]
            dup == createDuplicateAnnotation(second.sourceAnnotation, second.sourcePage,
                                             targetPage, uuidV4(uuidCount + 1), Date(now))
        IN  /\ IF dup.wasClipped
               THEN /\ second' = [second EXCEPT
                                    !.annotations = Append(second.annotations, dup.annotation),
                                    !.clippedPages = Append(second.clippedPages, targetPage.index),
                                    !.idx = second.idx + 1]
                    /\ console' = Append(console, Warning(second.sourceAnnotation, targetPage))
               ELSE /\ second' = [second EXCEPT
                                    !.annotations = Append(second.annotations, dup.annotation),
                                    !.idx = second.idx + 1]
                    /\ UNCHANGED console
            /\ clock' = now
    /\ uuidCount' = uuidCount + 1
    /\ UNCHANGED <<first, hook>>

SecondReturnResult ==
    /\ second.pc = "loop"
    /\ second.idx > Len(second.pages)
    /\ second' = [second EXCEPT !.pc = "done"]
    /\ UNCHANGED <<first, console, uuidCount, clock, hook>>

NextInterleaved ==
    \/ SourcePageFound
    \/ SourcePageNotFound
    \/ SkipSourcePage
    \/ DuplicateToPage
    \/ ReturnResult
    \/ SecondSourcePageFound
    \/ SecondSourcePageNotFound
    \/ SecondSkipSourcePage
    \/ SecondDuplicateToPage
    \/ SecondReturnResult

\* the annotations of the interleaved calls: a square and a line that overflow
\* the smaller pages, on the first page or on a page that may be missing
InterleavedAnnotations ==
    UNION {{SquareAnnotation(i, Rect(1, 1, 1, 1), Date(0)),
            LineAnnotation(i, Rect(0, 1, MaxCoord, 1), Position(0, MaxCoord),
                           Position(MaxCoord, 1), Undefined)} : i \in {0, 2}}

InterleavedPageLists ==
    {<<Page(0, MaxDim, MaxDim, "Degree0"), Page(1, 1, MaxDim, "Degree90")>>,
     <<Page(2, 1, MaxDim, "Degree0"), Page(0, MaxDim, 1, "Degree270")>>}

InterleavedOptions == {[includeSourcePage |-> v] : v \in {"undefined", "true"}}

\* two calls, on the same annotation or on two annotations, on the same page
\* list or on two, both entered before either has taken a step
InitInterleaved ==
    /\ sourceAnnotation \in InterleavedAnnotations
    /\ pages \in InterleavedPageLists
    /\ options \in InterleavedOptions
    /\ HookUnused
    /\ InitFirst
    /\ \E a \in InterleavedAnnotations, id \in {SourceId, <<"anno-2">>},
          l \in InterleavedPageLists, o \in InterleavedOptions :
        second = [sourceAnnotation |-> [a EXCEPT !.id = id], pages |-> l, options |-> o,
                  pc |-> "find", sourcePage |-> Undefined, idx |-> 0,
                  annotations |-> <<>>, clippedPages |-> <<>>, thrown |-> NoError]

SpecInterleaved == InitInterleaved /\ [][NextInterleaved]_vars

\* the result of one call made alone, by the loop of generateDuplicateAnnotations
\* run from start to end: ids are the draws 1, 2, ... of a fresh generator and
\* every date is the time of the call
generateDuplicateAnnotations(annotation, pageList, opts) ==
    LET found == find(pageList, annotation.pageIndex)
        Loop[i \in 0..Len(pageList)] ==
            IF i = 0
            THEN [annotations |-> <<>>, clippedPages |-> <<>>]
            ELSE IF /\ ~includeSourcePageOf(opts)
                    /\ pageList[i].index = annotation.pageIndex
                 THEN Loop[i - 1]
                 ELSE LET dup == createDuplicateAnnotation(
                                    annotation, found, pageList[i],
                                    uuidV4(Len(Loop[i - 1].annotations) + 1), Date(1))
                      IN  [annotations |-> Append(Loop[i - 1].annotations, dup.annotation),
                           clippedPages |->
                                IF dup.wasClipped
                                THEN Append(Loop[i - 1].clippedPages, pageList[i].index)
                                ELSE Loop[i - 1].clippedPages]
    IN  IF found = Undefined
        THEN [thrown |-> TRUE, annotations |-> <<>>, clippedPages |-> <<>>]
        ELSE [thrown |-> FALSE,
              annotations |-> Loop[Len(pageList)].annotations,
              clippedPages |-> Loop[Len(pageList)].clippedPages]

----------------------------------------------------------------------------
(* Vocabulary of the properties *)

HasSourcePage == \E k \in 1..Len(pages) : pages[k].index = sourceAnnotation.pageIndex

IncludeRequested == options.includeSourcePage = "true"

IsEligible(page) == IncludeRequested \/ page.index # sourceAnnotation.pageIndex

\* the target pages, in the order of the input list
EligiblePages == SelectSeq(pages, IsEligible)

\* rotation-adjusted size of a page
EffectiveSize(page) ==
    IF page.rotation \in {"Degree90", "Degree270"}
    THEN [width |-> page.size.height, height |-> page.size.width]
    ELSE [width |-> page.size.width, height |-> page.size.height]

\* the produced annotations paired with the page each was produced for
Produced ==
    IF annotations = <<>> THEN {} ELSE {k \in 1..Len(annotations) : k <= Len(EligiblePages)}
TargetOf(k) == EligiblePages[k]

----------------------------------------------------------------------------
(* Orchestration properties, checked under Spec *)

\* C1: when the source page is in the list the call does not fail and returns
\* len(pages) - 1 annotations when includeSourcePage is false or unset and
\* len(pages) annotations when it is true; a single-page document with the
\* option unset yields no annotation, no clipped page and no error.
C1_AnnotationCount ==
    /\ HasSourcePage => pc # "thrown" /\ thrown = NoError
    /\ pc = "done" =>
        Len(annotations) = IF IncludeRequested THEN Len(pages) ELSE Len(pages) - 1
    /\ (pc = "done" /\ Len(pages) = 1 /\ options.includeSourcePage = "undefined") =>
        annotations = <<>> /\ clippedPages = <<>> /\ thrown = NoError

C1_Witness ==
    /\ pc = "done"
    /\ Len(pages) = 2
    /\ options.includeSourcePage = "undefined"
    /\ Len(annotations) = 1

\* C2: the i-th produced annotation has the index of the i-th eligible page,
\* eligible pages taken in input order; without includeSourcePage no produced
\* annotation is on the source annotation's page.
C2_PageIndexOrder ==
    /\ Len(annotations) <= Len(EligiblePages)
    /\ \A k \in 1..Len(annotations) : annotations[k].pageIndex = EligiblePages[k].index
    /\ pc = "done" => Len(annotations) = Len(EligiblePages)
    /\ ~IncludeRequested =>
        \A k \in 1..Len(annotations) : annotations[k].pageIndex # sourceAnnotation.pageIndex

C2_Witness ==
    /\ pc = "done"
    /\ IncludeRequested
    /\ Len(annotations) = 2
    /\ annotations[1].pageIndex > annotations[2].pageIndex
    /\ annotations[2].pageIndex = sourceAnnotation.pageIndex

\* C3: every produced id differs from the source id and from every other
\* produced id of the call, also when the source page is included.
C3_UniqueIds ==
    /\ \A k \in 1..Len(annotations) : annotations[k].id # sourceAnnotation.id
    /\ \A j, k \in 1..Len(annotations) : j # k => annotations[j].id # annotations[k].id

C3_Witness ==
    /\ pc = "done"
    /\ IncludeRequested
    /\ Len(annotations) = 2
    /\ annotations[1].id # annotations[2].id

\* C5: without a page of the annotation's pageIndex the call throws the
\* source-page-not-found error carrying that index, whatever includeSourcePage
\* is, before any duplicate, id or warning is produced.
C5_SourcePageNotFound ==
    ~HasSourcePage =>
        /\ pc \in {"find", "thrown"}
        /\ pc = "thrown" =>
            /\ thrown # NoError
            /\ thrown.message = "Source page not found for annotation on page"
            /\ thrown.pageIndex = sourceAnnotation.pageIndex
        /\ annotations = <<>>
        /\ clippedPages = <<>>
        /\ console = <<>>
        /\ uuidCount = 0

C5_Witness ==
    /\ pc = "thrown"
    /\ IncludeRequested
    /\ Len(pages) = 2
    /\ thrown.pageIndex = sourceAnnotation.pageIndex

----------------------------------------------------------------------------
(* Geometry properties, checked under SpecGeom *)

PointInBounds(p, bound) ==
    /\ 0 <= p.x /\ p.x <= bound.width
    /\ 0 <= p.y /\ p.y <= bound.height

RectInBounds(r, bound) ==
    /\ PointInBounds(r.origin, bound)
    /\ r.size.width >= 0 /\ r.origin.x + r.size.width <= bound.width
    /\ r.size.height >= 0 /\ r.origin.y + r.size.height <= bound.height

AllPointsInBounds(annotation, bound) ==
    \A i \in 1..Len(PointsOf(annotation)) : PointInBounds(PointsOf(annotation)[i], bound)

SameGeometry(a, b) ==
    /\ a.rect = b.rect
    /\ PointsOf(a) = PointsOf(b)
    /\ a.type = "INK" => a.inkList = b.inkList
    /\ a.type \in {"POLYGON", "POLYLINE"} => a.vertices = b.vertices
    /\ a.type = "LINE" => a.linePoints = b.linePoints

IsClippedPage(index) == \E i \in 1..Len(clippedPages) : clippedPages[i] = index

\* the page the source annotation is on
TheSourcePage ==
    pages[CHOOSE k \in 1..Len(pages) : pages[k].index = sourceAnnotation.pageIndex]

\* C4: every duplicate lies within the rotation-adjusted bounds of its page:
\* rect origin and far edges within [0, effective size], sizes non-negative,
\* every ink point, vertex and line endpoint within the bounds.
C4_WithinTargetBounds ==
    \A k \in Produced :
        /\ RectInBounds(annotations[k].rect, EffectiveSize(TargetOf(k)))
        /\ AllPointsInBounds(annotations[k], EffectiveSize(TargetOf(k)))

C4_Witness ==
    /\ pc = "done"
    /\ Len(annotations) = 1
    /\ sourceAnnotation.type = "INK"
    /\ Len(sourceAnnotation.inkList) = 2
    /\ ~AllPointsInBounds(sourceAnnotation, EffectiveSize(pages[2]))
    /\ ~RectInBounds(sourceAnnotation.rect, EffectiveSize(pages[2]))
    /\ sourceAnnotation.rect.origin.x < 0
    /\ pages[2].rotation = "Degree90"

\* C6: a rect that overflows the target width keeps its origin.x and is cut to
\* targetWidth - origin.x when origin.x is within [0, targetWidth], and becomes
\* (targetWidth, 0) when origin.x is beyond targetWidth; the same on the y axis,
\* each axis on its own.
C6_RectTruncated ==
    \A k \in Produced :
        LET r == sourceAnnotation.rect
            out == annotations[k].rect
            bound == EffectiveSize(TargetOf(k))
        IN  /\ r.origin.x + r.size.width > bound.width =>
                /\ (0 <= r.origin.x /\ r.origin.x <= bound.width) =>
                    /\ out.origin.x = r.origin.x
                    /\ out.size.width = bound.width - r.origin.x
                /\ r.origin.x > bound.width =>
                    /\ out.origin.x = bound.width
                    /\ out.size.width = 0
            /\ r.origin.y + r.size.height > bound.height =>
                /\ (0 <= r.origin.y /\ r.origin.y <= bound.height) =>
                    /\ out.origin.y = r.origin.y
                    /\ out.size.height = bound.height - r.origin.y
                /\ r.origin.y > bound.height =>
                    /\ out.origin.y = bound.height
                    /\ out.size.height = 0

C6_Witness ==
    /\ pc = "done"
    /\ Len(annotations) = 1
    /\ LET r == sourceAnnotation.rect
           bound == EffectiveSize(pages[2])
       IN  /\ r.origin.x = 1 /\ bound.width = 2 /\ r.size.width = 2
           /\ r.origin.y > bound.height
           /\ annotations[1].rect = [origin |-> [x |-> 1, y |-> bound.height],
                                     size |-> [width |-> 1, height |-> 0]]

\* C7 as stated: every annotation of the source page is reproduced exactly on a
\* target page of the source page's size, both unrotated, and that page is not
\* reported as clipped.
C7_SameSizeReproducesAll ==
    \A k \in Produced :
        (/\ TheSourcePage.rotation = "Degree0"
         /\ TargetOf(k).rotation = "Degree0"
         /\ TargetOf(k).size = TheSourcePage.size) =>
            /\ SameGeometry(annotations[k], sourceAnnotation)
            /\ ~IsClippedPage(TargetOf(k).index)

\* C7 amended: an annotation whose rect and points lie within the bounds of its
\* own (unrotated) page is reproduced exactly on an unrotated target page of
\* the same size, and that page is not reported as clipped.
C7_SameSizeReproducesContained ==
    \A k \in Produced :
        (/\ TheSourcePage.rotation = "Degree0"
         /\ TargetOf(k).rotation = "Degree0"
         /\ TargetOf(k).size = TheSourcePage.size
         /\ RectInBounds(sourceAnnotation.rect, TheSourcePage.size)
         /\ AllPointsInBounds(sourceAnnotation, TheSourcePage.size)) =>
            /\ SameGeometry(annotations[k], sourceAnnotation)
            /\ ~IsClippedPage(TargetOf(k).index)

C7_Witness ==
    /\ pc = "done"
    /\ Len(annotations) = 1
    /\ pages[1].size = [width |-> 1, height |-> 2]
    /\ pages[2].size = pages[1].size
    /\ pages[2].rotation = "Degree0"
    /\ sourceAnnotation.type = "LINE"
    /\ sourceAnnotation.linePoints = [start |-> [x |-> 1, y |-> 0], end |-> [x |-> 0, y |-> 1]]
    /\ sourceAnnotation.rect = [origin |-> [x |-> 0, y |-> 0], size |-> [width |-> 1, height |-> 1]]
    /\ SameGeometry(annotations[1], sourceAnnotation)
    /\ clippedPages = <<>>

\* C8: an annotation whose rect and points lie within a target page's
\* effective bounds (a zero-size rect and a target larger than the source page
\* included) is duplicated there with identical rect and points, and the page
\* is not reported as clipped.
C8_FittingAnnotationUnchanged ==
    \A k \in Produced :
        (/\ RectInBounds(sourceAnnotation.rect, EffectiveSize(TargetOf(k)))
         /\ AllPointsInBounds(sourceAnnotation, EffectiveSize(TargetOf(k)))) =>
            /\ SameGeometry(annotations[k], sourceAnnotation)
            /\ ~IsClippedPage(TargetOf(k).index)

C8_Witness ==
    /\ pc = "done"
    /\ Len(annotations) = 1
    /\ pages[1].size = [width |-> 1, height |-> 2]
    /\ pages[2].size = [width |-> 2, height |-> 2]
    /\ sourceAnnotation.type = "SQUARE"
    /\ sourceAnnotation.rect = [origin |-> [x |-> 2, y |-> 1], size |-> [width |-> 0, height |-> 0]]
    /\ annotations[1].rect = sourceAnnotation.rect
    /\ clippedPages = <<>>

\* C9: bounds are edge-inclusive. A rect with its origin inside the target
\* bounds and a far edge exactly on the bound (the other far edge on or inside
\* it) is returned unchanged and not flagged; a coordinate of a point equal to
\* 0 or to the bound is never changed, and a point inside the bounds with such
\* a coordinate is returned unchanged and not flagged.
C9_EdgeInclusive ==
    \A k \in Produced :
        LET r == sourceAnnotation.rect
            pts == PointsOf(sourceAnnotation)
            bound == EffectiveSize(TargetOf(k))
        IN  /\ (/\ RectInBounds(r, bound)
                /\ \/ r.origin.x + r.size.width = bound.width
                   \/ r.origin.y + r.size.height = bound.height) =>
                    /\ annotations[k].rect = r
                    /\ clipRectToPageBounds(r, bound) = [rect |-> r, wasClipped |-> FALSE]
                    /\ sourceAnnotation.type = "SQUARE" => ~IsClippedPage(TargetOf(k).index)
            /\ \A i \in 1..Len(pts) :
                (/\ PointInBounds(pts[i], bound)
                 /\ \/ pts[i].x \in {0, bound.width}
                    \/ pts[i].y \in {0, bound.height}) =>
                    /\ PointsOf(annotations[k])[i] = pts[i]
                    /\ clipPositionToPageBounds(pts[i], bound) =
                            [position |-> pts[i], wasClipped |-> FALSE]
            /\ \A i \in 1..Len(pts) :
                /\ pts[i].x \in {0, bound.width} => PointsOf(annotations[k])[i].x = pts[i].x
                /\ pts[i].y \in {0, bound.height} => PointsOf(annotations[k])[i].y = pts[i].y
            /\ (/\ RectInBounds(r, bound)
                /\ r.origin.x + r.size.width = bound.width
                /\ r.origin.y + r.size.height = bound.height
                /\ \A i \in 1..Len(pts) :
                    /\ PointInBounds(pts[i], bound)
                    /\ \/ pts[i].x \in {0, bound.width}
                       \/ pts[i].y \in {0, bound.height}) =>
                    ~IsClippedPage(TargetOf(k).index)

C9_Witness ==
    /\ pc = "done"
    /\ Len(annotations) = 1
    /\ sourceAnnotation.type = "POLYLINE"
    /\ EffectiveSize(pages[2]) = [width |-> 1, height |-> 2]
    /\ sourceAnnotation.rect = [origin |-> [x |-> 0, y |-> 0], size |-> [width |-> 1, height |-> 1]]
    /\ sourceAnnotation.vertices = <<[x |-> 0, y |-> 1], [x |-> 1, y |-> 0]>>
    /\ SameGeometry(annotations[1], sourceAnnotation)
    /\ clippedPages = <<>>

ClampTo(v, hi) == IF v < 0 THEN 0 ELSE IF v > hi THEN hi ELSE v

ClipPointTo(p, bound) == [x |-> ClampTo(p.x, bound.width), y |-> ClampTo(p.y, bound.height)]

ClipRectTo(r, bound) ==
    LET o == ClipPointTo(r.origin, bound)
        w == IF r.size.width <= bound.width - o.x THEN r.size.width ELSE bound.width - o.x
        h == IF r.size.height <= bound.height - o.y THEN r.size.height ELSE bound.height - o.y
    IN  [origin |-> o,
         size |-> [width |-> IF w < 0 THEN 0 ELSE w, height |-> IF h < 0 THEN 0 ELSE h]]

\* the bound a duplicate was clipped against, read from the stored page size
StoredOrSwapped(page) ==
    IF page.rotation \in {"Degree90", "Degree270"}
    THEN [width |-> page.size.height, height |-> page.size.width]
    ELSE IF page.rotation \in {"Degree0", "Degree180"}
         THEN [width |-> page.size.width, height |-> page.size.height]
         ELSE [width |-> -1, height |-> -1]

\* C10: the rect and every point of a duplicate are the source's clamped
\* against (stored height, stored width) for a target rotated by 90 or 270
\* degrees and against (stored width, stored height) for 0 or 180 degrees.
C10_ClippedAgainstEffectiveSize ==
    \A k \in Produced :
        LET bound == StoredOrSwapped(TargetOf(k))
            pts == PointsOf(sourceAnnotation)
        IN  /\ annotations[k].rect = ClipRectTo(sourceAnnotation.rect, bound)
            /\ Len(PointsOf(annotations[k])) = Len(pts)
            /\ \A i \in 1..Len(pts) :
                PointsOf(annotations[k])[i] = ClipPointTo(pts[i], bound)

C10_Witness ==
    /\ pc = "done"
    /\ Len(annotations) = 1
    /\ pages[2].rotation = "Degree270"
    /\ pages[2].size = [width |-> 1, height |-> 2]
    /\ sourceAnnotation.type = "POLYGON"
    /\ sourceAnnotation.vertices = <<[x |-> 2, y |-> 2], [x |-> 0, y |-> 0]>>
    /\ sourceAnnotation.rect = [origin |-> [x |-> 0, y |-> 0], size |-> [width |-> 2, height |-> 2]]
    /\ annotations[1].vertices = <<[x |-> 2, y |-> 1], [x |-> 0, y |-> 0]>>
    /\ annotations[1].rect = [origin |-> [x |-> 0, y |-> 0], size |-> [width |-> 2, height |-> 1]]

----------------------------------------------------------------------------
(* Clip reporting and pass-through, C11 to C16 *)

\* the indexes of the pages whose duplicate differs from the source in its
\* rect or in any point, in the order the duplicates were produced
ChangedPages ==
    LET Changed[k \in 0..Len(annotations)] ==
            IF k = 0 THEN <<>>
            ELSE IF SameGeometry(annotations[k], sourceAnnotation)
                 THEN Changed[k - 1]
                 ELSE Append(Changed[k - 1], annotations[k].pageIndex)
    IN  Changed[Len(annotations)]

RewrittenFields == {"id", "pageIndex", "created", "rect", "inkList", "vertices", "linePoints"}

\* C12: for every kind and every target page, clipped or not, a duplicate has
\* the fields of the source, and every field other than id, pageIndex,
\* created, rect and the kind's geometry has the source's value.
C12_OtherFieldsUntouched ==
    \A k \in Produced :
        /\ DOMAIN annotations[k] = DOMAIN sourceAnnotation
        /\ \A f \in DOMAIN sourceAnnotation \ RewrittenFields :
            annotations[k][f] = sourceAnnotation[f]

C12_Witness ==
    /\ pc = "done"
    /\ Len(annotations) = 1
    /\ sourceAnnotation.type = "POLYGON"
    /\ clippedPages = <<annotations[1].pageIndex>>
    /\ annotations[1].vertices # sourceAnnotation.vertices
    /\ annotations[1].type = "POLYGON"
    /\ annotations[1].color = "#00FF00"
    /\ annotations[1].strokeWidth = "1"
    /\ annotations[1].flags = <<>>

\* one warning per entry of clippedPages, in the same order, and those are
\* the pages whose duplicate was changed by clipping
OneWarningPerClippedPage ==
    /\ clippedPages = ChangedPages
    /\ Len(console) = Len(clippedPages)
    /\ \A i \in 1..Len(console) :
        /\ console[i].annotationId = sourceAnnotation.id
        /\ console[i].pageIndex = clippedPages[i]

\* C13 as stated: one warning per clipped page and none for the others, in
\* page order, each naming the source annotation id, the target page index,
\* the size of the source page and the size of the target page.
C13_WarningNamesBothPageSizes ==
    /\ OneWarningPerClippedPage
    /\ \A i \in 1..Len(console) :
        /\ \E k \in Produced :
            /\ TargetOf(k).index = console[i].pageIndex
            /\ console[i].targetWidth = TargetOf(k).size.width
            /\ console[i].targetHeight = TargetOf(k).size.height
        /\ {"sourceWidth", "sourceHeight"} \subseteq DOMAIN console[i]
        /\ console[i].sourceWidth = TheSourcePage.size.width
        /\ console[i].sourceHeight = TheSourcePage.size.height

\* C13, amended: one warning per clipped page and none for the others, in
\* page order, each naming the source annotation id, the target page index
\* and the stored width and height of the target page, and no other value.
C13_WarningNamesTargetPageSize ==
    /\ OneWarningPerClippedPage
    /\ \A i \in 1..Len(console) :
        /\ DOMAIN console[i] = {"annotationId", "pageIndex", "targetWidth", "targetHeight"}
        /\ \E k \in Produced :
            /\ TargetOf(k).index = console[i].pageIndex
            /\ console[i].targetWidth = TargetOf(k).size.width
            /\ console[i].targetHeight = TargetOf(k).size.height

C13_Witness ==
    /\ pc = "done"
    /\ Len(annotations) = 2
    /\ Len(console) = 1
    /\ console[1].annotationId = SourceId
    /\ console[1].pageIndex = annotations[2].pageIndex
    /\ \E k \in 1..Len(pages) :
        /\ pages[k].index = console[1].pageIndex
        /\ pages[k].rotation = "Degree90"
        /\ pages[k].size = [width |-> 1, height |-> 2]
    /\ console[1].targetWidth = 1
    /\ console[1].targetHeight = 2
    /\ TheSourcePage.size # [width |-> 1, height |-> 2]

\* the source page with another stored size and rotation: a large unrotated
\* page and a small rotated one. Two reference shapes are enough, as results
\* that agree with the result for one shape agree with each other.
OtherSourcePages ==
    {Page(sourceAnnotation.pageIndex, MaxDim, MaxDim, "Degree0"),
     Page(sourceAnnotation.pageIndex, 1, MaxDim, "Degree90")}

\* the k-th target page of the page list whose source page is replaced by other
OtherTargetOf(k, other) ==
    IF TargetOf(k).index = sourceAnnotation.pageIndex THEN other ELSE TargetOf(k)

\* the k-th duplicate agrees, in geometry, page index and clip report, with
\* the one the call computes when the source page is replaced by other
AgreesWithOtherSourcePage(k, other) ==
    LET dup == createDuplicateAnnotation(sourceAnnotation, other, OtherTargetOf(k, other),
                                         annotations[k].id, annotations[k].created)
    IN  /\ SameGeometry(annotations[k], dup.annotation)
        /\ annotations[k].pageIndex = dup.annotation.pageIndex
        /\ IsClippedPage(annotations[k].pageIndex) <=> dup.wasClipped

\* C14 as stated: page lists that differ only in the size or rotation of the
\* source page give the same geometry, page indexes and clippedPages,
\* whether or not the source page is included.
C14_SourcePageNeverMatters ==
    HasSourcePage =>
        \A k \in Produced : \A other \in OtherSourcePages : AgreesWithOtherSourcePage(k, other)

\* C14, amended: page lists that differ only in the size or rotation of the
\* source page give, for every target page other than the source page itself,
\* the same geometry, page index and clip report; without includeSourcePage
\* that is the whole result.
C14_SourcePageMattersOnlyAsTarget ==
    HasSourcePage =>
        \A k \in Produced : \A other \in OtherSourcePages :
            \/ TargetOf(k).index = sourceAnnotation.pageIndex
            \/ AgreesWithOtherSourcePage(k, other)

C14_Witness ==
    /\ pc = "done"
    /\ ~IncludeRequested
    /\ Len(annotations) = 1
    /\ clippedPages = <<>>
    /\ sourceAnnotation.rect = Rect(1, 1, 1, 1)
    /\ getRotatedPageSize(TheSourcePage) = Size(1, MaxDim)
    /\ getRotatedPageSize(TargetOf(1)) = Size(MaxDim, MaxDim)
    /\ annotations[1].rect = sourceAnnotation.rect
    /\ \E other \in OtherSourcePages : getRotatedPageSize(other) = Size(MaxDim, 1)

\* C15: the call fails only when the source page is missing; when it is in
\* the list the call never throws and every step before the return can be
\* taken, for zero-area annotations, malformed geometry and target pages of
\* zero width or height alike; on a target page of zero effective width the
\* rect has origin.x = 0 and width = 0, and of zero effective height
\* origin.y = 0 and height = 0.
C15_OnlyMissingSourcePageFails ==
    /\ (pc = "thrown" \/ thrown # NoError) => ~HasSourcePage
    /\ HasSourcePage /\ pc # "done" => ENABLED Next
    /\ pc = "done" => thrown = NoError /\ Len(annotations) = Len(EligiblePages)
    /\ \A k \in Produced :
        /\ EffectiveSize(TargetOf(k)).width = 0 =>
            annotations[k].rect.origin.x = 0 /\ annotations[k].rect.size.width = 0
        /\ EffectiveSize(TargetOf(k)).height = 0 =>
            annotations[k].rect.origin.y = 0 /\ annotations[k].rect.size.height = 0

C15_Witness ==
    /\ pc = "done"
    /\ thrown = NoError
    /\ sourceAnnotation.rect = Rect(MaxCoord, 0, -1, 1)
    /\ EffectiveSize(pages[2]) = Size(0, MaxDim)
    /\ Len(annotations) = 1
    /\ annotations[1].rect = Rect(0, 0, 0, 1)

\* the pages of the list, as a set
PageSet == {pages[k] : k \in 1..Len(pages)}

\* C16: a duplicate has a fresh id, drawn from the generator and different
\* from the source's; its pageIndex is the target page's index whatever the
\* pageIndex of the source and the index of the source page are; its created
\* is the time of the call that made it, whatever created the source had;
\* and the clip report returned with it is the shape transform's. Checked on
\* the duplicates of the call and, on entry, on createDuplicateAnnotation
\* applied to every two pages of the list as source page and target page.
C16_FreshIdentityPageAndTime ==
    /\ \A k \in Produced :
        LET targetPage == TargetOf(k)
        IN  /\ annotations[k].id # sourceAnnotation.id
            /\ annotations[k].id = uuidV4(k)
            /\ k <= uuidCount
            /\ annotations[k].pageIndex = targetPage.index
            /\ \E t \in 1..clock : annotations[k].created = Date(t)
            /\ k = Len(annotations) => annotations[k].created = Date(clock)
            /\ k > 1 => annotations[k - 1].created.time <= annotations[k].created.time
            /\ IsClippedPage(targetPage.index) <=>
                transformAnnotationForTargetPage(sourceAnnotation, sourcePage, targetPage).wasClipped
    /\ pc = "find" => \A from \in PageSet, to \in PageSet :
        LET dup == createDuplicateAnnotation(sourceAnnotation, from, to,
                                             uuidV4(uuidCount + 1), Date(clock))
        IN  /\ dup.annotation.id = uuidV4(uuidCount + 1)
            /\ dup.annotation.pageIndex = to.index
            /\ dup.annotation.created = Date(clock)
            /\ dup.wasClipped =
                transformAnnotationForTargetPage(sourceAnnotation, from, to).wasClipped

C16_Witness ==
    /\ pc = "done"
    /\ sourceAnnotation.created = Date(0)
    /\ sourceAnnotation.pageIndex = 1
    /\ Len(annotations) = 1
    /\ annotations[1].pageIndex = 0
    /\ annotations[1].id = uuidV4(1)
    /\ annotations[1].created = Date(2)
    /\ clock = 2
    /\ clippedPages = <<>>

----------------------------------------------------------------------------
(* Clip flags and structure, C18 to C20, checked under SpecGeom *)

\* C18: for a rect of non-negative width and height and a bound of
\* non-negative width and height, clipRectToPageBounds reports wasClipped
\* exactly when the rect it returns differs from the rect it was given in
\* origin.x, origin.y, width or height.
C18_FlagIffRectChanged ==
    \A k \in Produced :
        LET rect == sourceAnnotation.rect
            bound == EffectiveSize(TargetOf(k))
            result == clipRectToPageBounds(rect, bound)
            changed == \/ annotations[k].rect.origin.x # rect.origin.x
                       \/ annotations[k].rect.origin.y # rect.origin.y
                       \/ annotations[k].rect.size.width # rect.size.width
                       \/ annotations[k].rect.size.height # rect.size.height
        IN  rect.size.width >= 0 /\ rect.size.height >= 0 =>
                /\ result.rect = annotations[k].rect
                /\ result.wasClipped <=> changed
                /\ sourceAnnotation.type = "SQUARE" =>
                    (IsClippedPage(TargetOf(k).index) <=> changed)

C18_Witness ==
    /\ pc = "done"
    /\ sourceAnnotation.type = "SQUARE"
    /\ sourceAnnotation.rect = Rect(-1, 0, 1, 1)
    /\ EffectiveSize(pages[2]) = Size(MaxDim, MaxDim)
    /\ Len(annotations) = 1
    /\ annotations[1].rect = Rect(0, 0, 1, 1)
    /\ clippedPages = <<1>>

IsPathKind(annotation) == annotation.type \in {"INK", "POLYGON", "POLYLINE", "LINE"}

\* C19: for ink, polygon, polyline and line annotations the clip report of a
\* duplicate is the disjunction of the clip results of all its points and of
\* its rect, true exactly when a point was changed by clamping or the rect
\* was clipped; for the other kinds it is the clip result of the rect alone.
C19_FlagIsDisjunctionOfClips ==
    \A k \in Produced :
        LET bound == getRotatedPageSize(TargetOf(k))
            pts == PointsOf(sourceAnnotation)
            reported == IsClippedPage(TargetOf(k).index)
            rectClipped == clipRectToPageBounds(sourceAnnotation.rect, bound).wasClipped
            pointClipped == \E i \in 1..Len(pts) :
                                clipPositionToPageBounds(pts[i], bound).wasClipped
            pointChanged == \E i \in 1..Len(pts) : PointsOf(annotations[k])[i] # pts[i]
        IN  IF IsPathKind(sourceAnnotation)
            THEN /\ Len(PointsOf(annotations[k])) = Len(pts)
                 /\ reported <=> (pointClipped \/ rectClipped)
                 /\ reported <=> (pointChanged \/ rectClipped)
            ELSE reported <=> rectClipped

C19_Witness ==
    /\ pc = "done"
    /\ sourceAnnotation.type = "LINE"
    /\ sourceAnnotation.linePoints = [start |-> Position(0, 0), end |-> Position(MaxCoord, MaxCoord)]
    /\ sourceAnnotation.rect = Rect(0, 0, 0, 0)
    /\ EffectiveSize(pages[2]) = Size(1, 1)
    /\ Len(annotations) = 1
    /\ annotations[1].rect = sourceAnnotation.rect
    /\ annotations[1].linePoints = [start |-> Position(0, 0), end |-> Position(1, 1)]
    /\ clippedPages = <<1>>

\* C20: an ink duplicate has the strokes of the source, each with as many
\* points in the same order, the k-th point being the clamp of the source's
\* k-th point; a polygon or polyline duplicate has as many vertices in the
\* same order, each the clamp of the source's; the start of a line duplicate
\* is the clamp of the source's start and its end the clamp of the source's
\* end.
C20_StructurePreserved ==
    \A k \in Produced :
        LET bound == EffectiveSize(TargetOf(k))
            src == sourceAnnotation
            dup == annotations[k]
        IN  /\ src.type = "INK" =>
                /\ Len(dup.inkList) = Len(src.inkList)
                /\ \A s \in 1..Len(src.inkList) :
                    /\ DOMAIN dup.inkList[s] = DOMAIN src.inkList[s]
                    /\ Len(dup.inkList[s].points) = Len(src.inkList[s].points)
                    /\ \A i \in 1..Len(src.inkList[s].points) :
                        dup.inkList[s].points[i] = ClipPointTo(src.inkList[s].points[i], bound)
            /\ src.type \in {"POLYGON", "POLYLINE"} =>
                /\ Len(dup.vertices) = Len(src.vertices)
                /\ \A i \in 1..Len(src.vertices) :
                    dup.vertices[i] = ClipPointTo(src.vertices[i], bound)
            /\ src.type = "LINE" =>
                /\ DOMAIN dup.linePoints = {"start", "end"}
                /\ dup.linePoints.start = ClipPointTo(src.linePoints.start, bound)
                /\ dup.linePoints.end = ClipPointTo(src.linePoints.end, bound)

C20_Witness ==
    /\ pc = "done"
    /\ sourceAnnotation.type = "INK"
    /\ sourceAnnotation.inkList = <<[points |-> <<Position(MaxCoord, MaxCoord)>>],
                                    [points |-> <<Position(0, 0)>>]>>
    /\ EffectiveSize(pages[2]) = Size(1, 1)
    /\ Len(annotations) = 1
    /\ annotations[1].inkList = <<[points |-> <<Position(1, 1)>>],
                                  [points |-> <<Position(0, 0)>>]>>

----------------------------------------------------------------------------
(* Interleaved invocations, C17, checked under SpecInterleaved *)

\* the annotations and clipped pages a call returned have the page indexes,
\* the geometry and the clipped pages of the result of the call made alone
SameOutcome(alone, produced, clipped) ==
    /\ ~alone.thrown
    /\ Len(produced) = Len(alone.annotations)
    /\ \A k \in 1..Len(produced) :
        /\ produced[k].pageIndex = alone.annotations[k].pageIndex
        /\ SameGeometry(produced[k], alone.annotations[k])
    /\ clipped = alone.clippedPages

FirstAlone == generateDuplicateAnnotations(sourceAnnotation, pages, options)
SecondAlone == generateDuplicateAnnotations(second.sourceAnnotation, second.pages, second.options)

\* the ids produced so far by both invocations, in one sequence
AllProducedIds ==
    [k \in 1..Len(annotations) |-> annotations[k].id]
    \o [k \in 1..Len(second.annotations) |-> second.annotations[k].id]

InterleavingIsInvisible ==
    /\ pc = "done" => SameOutcome(FirstAlone, annotations, clippedPages)
    /\ pc = "thrown" => FirstAlone.thrown /\ annotations = <<>>
    /\ second.pc = "done" => SameOutcome(SecondAlone, second.annotations, second.clippedPages)
    /\ second.pc = "thrown" => SecondAlone.thrown /\ second.annotations = <<>>
    /\ \A i, j \in 1..Len(AllProducedIds) :
        /\ AllProducedIds[i] = AllProducedIds[j] => i = j
        /\ AllProducedIds[i] \notin {sourceAnnotation.id, second.sourceAnnotation.id}

ArgumentsUntouched ==
    /\ sourceAnnotation' = sourceAnnotation
    /\ pages' = pages
    /\ options' = options
    /\ second'.sourceAnnotation = second.sourceAnnotation
    /\ second'.pages = second.pages
    /\ second'.options = second.options

\* C17: two invocations whose steps interleave in any order each return the
\* page indexes, the geometry and the clipped pages they return when run
\* alone, and fail exactly when they fail alone; the ids produced by both are
\* pairwise distinct and differ from the source ids; no step of either
\* changes the annotation, the page list or the options passed to either.
C17_InterleavedCallsAreIndependent ==
    []InterleavingIsInvisible /\ [][ArgumentsUntouched]_vars

\* both calls ran on the same page list with the source page included, their
\* loop bodies alternating, and both clipped on the second page
C17_Witness ==
    /\ pc = "done"
    /\ second.pc = "done"
    /\ pages = second.pages
    /\ sourceAnnotation.type = "SQUARE"
    /\ second.sourceAnnotation.type = "LINE"
    /\ Len(annotations) = 2
    /\ Len(second.annotations) = 2
    /\ annotations[1].id = uuidV4(1)
    /\ second.annotations[1].id = uuidV4(2)
    /\ annotations[2].id = uuidV4(3)
    /\ second.annotations[2].id = uuidV4(4)
    /\ clippedPages = <<1>>
    /\ second.clippedPages = <<1>>
    /\ Len(console) = 2

----------------------------------------------------------------------------
(* Points within the rect and idempotence, C21 and C22, checked under SpecGeom *)

\* p lies within rect r: origin <= p <= origin + size in both axes
PointInRect(p, r) ==
    /\ r.origin.x <= p.x /\ p.x <= r.origin.x + r.size.width
    /\ r.origin.y <= p.y /\ p.y <= r.origin.y + r.size.height

AllPointsInRect(annotation) ==
    \A i \in 1..Len(PointsOf(annotation)) : PointInRect(PointsOf(annotation)[i], annotation.rect)

NonNegativeSize(r) == r.size.width >= 0 /\ r.size.height >= 0

\* C21: for an ink, polygon, polyline or line annotation whose rect has
\* non-negative size and contains all its points, on a target page of
\* non-negative effective size, every point of the duplicate lies within the
\* rect of the duplicate.
C21_PointsStayInRect ==
    \A k \in Produced :
        (/\ IsPathKind(sourceAnnotation)
         /\ NonNegativeSize(sourceAnnotation.rect)
         /\ AllPointsInRect(sourceAnnotation))
        => AllPointsInRect(annotations[k])

\* both the rect and the far point are clipped, each on its own
C21_Witness ==
    /\ pc = "done"
    /\ sourceAnnotation.type = "LINE"
    /\ sourceAnnotation.rect = Rect(-1, -1, MaxCoord + 1, MaxCoord + 1)
    /\ sourceAnnotation.linePoints = [start |-> Position(-1, -1),
                                       end |-> Position(MaxCoord, MaxCoord)]
    /\ EffectiveSize(pages[2]) = Size(1, 1)
    /\ Len(annotations) = 1
    /\ annotations[1].rect = Rect(0, 0, 1, 1)
    /\ annotations[1].linePoints = [start |-> Position(0, 0), end |-> Position(1, 1)]

\* the pages of the same effective size as page: itself and the page turned
\* by a quarter with width and height exchanged
SameEffectiveSizePages(page) ==
    {page,
     [page EXCEPT !.size = Size(page.size.height, page.size.width),
                  !.rotation = IF page.rotation \in {"Degree90", "Degree270"}
                               THEN "Degree0" ELSE "Degree90"]}

\* C22: clipping the clipped rect or a clipped point against the same bound
\* returns it unchanged with wasClipped = false, for rects of non-negative
\* size; so duplicating a duplicate onto a page of the effective size it was
\* produced for gives the same geometry and reports no clipping.
C22_ClippingIsIdempotent ==
    \A k \in Produced :
        NonNegativeSize(sourceAnnotation.rect) =>
            LET bound == getRotatedPageSize(TargetOf(k))
                pts == PointsOf(annotations[k])
            IN  /\ clipRectToPageBounds(annotations[k].rect, bound)
                    = [rect |-> annotations[k].rect, wasClipped |-> FALSE]
                /\ \A i \in 1..Len(pts) :
                    clipPositionToPageBounds(pts[i], bound)
                        = [position |-> pts[i], wasClipped |-> FALSE]
                /\ \A again \in SameEffectiveSizePages(TargetOf(k)) :
                    LET dup == createDuplicateAnnotation(annotations[k], TargetOf(k), again,
                                                         uuidV4(uuidCount + 1), Date(clock))
                    IN  /\ SameGeometry(dup.annotation, annotations[k])
                        /\ ~dup.wasClipped

\* a clipped square that ends exactly on both edges of its page
C22_Witness ==
    /\ pc = "done"
    /\ sourceAnnotation.type = "SQUARE"
    /\ sourceAnnotation.rect = Rect(-1, 0, MaxCoord, MaxCoord)
    /\ EffectiveSize(pages[2]) = Size(1, 1)
    /\ Len(annotations) = 1
    /\ annotations[1].rect = Rect(0, 0, 1, 1)
    /\ clippedPages = <<1>>

----------------------------------------------------------------------------
(* The clipboard hook useAnnotationClipboard (src/unnamed/part_000).

   JavaScript values are records: a string is JsString(s), a number
   JsNumber(n), null JsNull, an array JsArray(items); an object is the record
   of its fields, an absent field being absent from the record. btoa/atob,
   encodeURIComponent/decodeURIComponent and JSON are the platform's: the model
   keeps which texts each of them rejects and that each decoder undoes its
   encoder on what the encoder produced.

   An async function runs from one await to the next without interruption;
   each such stretch is one action. *)

JsString(str) == [js |-> "string", s |-> str]
JsNumber(n) == [js |-> "number", n |-> n]
JsNull == [js |-> "null"]
JsArray(items) == [js |-> "array", items |-> items]
EmptyObject == [f \in {} |-> Undefined]

\* obj.f, undefined when obj has no such field
Get(obj, f) == IF f \in DOMAIN obj THEN obj[f] ELSE Undefined

\* obj.f === str
HasString(obj, f, str) == f \in DOMAIN obj /\ obj[f] = str

\* !!value
Truthy(value) == value \notin {Undefined, JsNull, JsNumber(0), JsString("")}

\* typeof value
TypeOf(value) ==
    IF value = Undefined THEN "undefined"
    ELSE IF "js" \in DOMAIN value
         THEN IF value.js \in {"number", "string"} THEN value.js ELSE "object"
         ELSE "object"

\* the own fields an object spread copies: none for a number or null
SpreadFields(value) == IF "js" \in DOMAIN value THEN {} ELSE DOMAIN value

\* encodeToBase64: the UTF-8 bytes of str, base64-encoded
encodeToBase64(str) == [kind |-> "base64", bytes |-> [kind |-> "utf8", string |-> str]]

\* decodeFromBase64: null when atob rejects the text or the bytes are not UTF-8
decodeFromBase64(b64) ==
    IF b64.kind = "base64" /\ b64.bytes.kind = "utf8" THEN b64.bytes.string ELSE JsNull

\* JSON.stringify
JSONstringify(value) == [kind |-> "json", value |-> value]

\* JSON.parse: the value, or a SyntaxError
JSONparse(str) ==
    IF str.kind = "json"
    THEN [threw |-> FALSE, value |-> str.value]
    ELSE [threw |-> TRUE, value |-> Undefined]

\* rect offset of a pasted clone, dx = dy = 8
dx == 8
dy == 8

\* the annotations that are copied and pasted
StampImageSrc == JsString("blob:stamp")
HookSquare ==
    [id |-> <<"anno-1">>, type |-> "SQUARE", pageIndex |-> 1, rect |-> Rect(0, 0, 1, 1)]
HookStamp ==
    [id |-> <<"anno-2">>, type |-> "STAMP", pageIndex |-> 0, rect |-> Rect(1, 1, 1, 1),
     imageSrc |-> StampImageSrc]
HookStampNoImage ==
    [id |-> <<"anno-3">>, type |-> "STAMP", pageIndex |-> 0, rect |-> Rect(1, 1, 1, 1)]
\* an annotation from elsewhere: no id, no pageIndex, rect as [x1, y1, x2, y2]
ForeignAnnotation == [type |-> "SQUARE", rect |-> JsArray(<<0, 0, 1, 1>>)]

HookAnnotations == {HookSquare, HookStamp, HookStampNoImage}

\* { type: 'comp-paste', data: { annotation } }
Payload(original) == [type |-> "comp-paste", data |-> [annotation |-> original]]

\* the payload with data.imageBase64 set
PayloadWithImage(original, base64) ==
    [type |-> "comp-paste", data |-> [annotation |-> original, imageBase64 |-> base64]]

\* JSON documents that may be on the clipboard
ClipboardObjects ==
    {JsNull, JsNumber(7), JsArray(<<>>), EmptyObject,
     [type |-> "other", data |-> [annotation |-> HookSquare]],
     [type |-> "comp-paste"],
     [type |-> "comp-paste", data |-> EmptyObject],
     [type |-> "comp-paste", data |-> JsNull],
     [type |-> "comp-paste", data |-> [annotation |-> JsNull]],
     Payload(JsNumber(7)),
     Payload(ForeignAnnotation),
     PayloadWithImage(HookStamp, JsString("iVBOR")),
     PayloadWithImage(HookStamp, JsString(""))}
    \cup {Payload(a) : a \in HookAnnotations}

EmptyText == [kind |-> "empty"]

\* texts that may be on the clipboard: nothing, text that is not base64,
\* base64 of bytes that are not UTF-8, of text that is not JSON, of JSON
ClipboardTexts ==
    {EmptyText, [kind |-> "plain"],
     [kind |-> "base64", bytes |-> [kind |-> "binary"]],
     encodeToBase64([kind |-> "text"])}
    \cup {encodeToBase64(JSONstringify(obj)) : obj \in ClipboardObjects}

\* the first argument of pasteAnnotation
Selections == {Undefined, [object |-> HookSquare], [object |-> ForeignAnnotation]}

\* the capability, as far as the hook uses it
Provided == [provided |-> TRUE]

\* line 209, negated: the payload pasteAnnotation accepts
IsPastePayload(obj) ==
    /\ Truthy(obj)
    /\ TypeOf(obj) = "object"
    /\ HasString(obj, "type", "comp-paste")
    /\ Truthy(Get(Get(obj, "data"), "annotation"))

\* lines 216-225: the page the clone goes to
PastePageIndex(source, selected) ==
    LET currentPage == IF scrollState # Undefined /\ "currentPage" \in DOMAIN scrollState
                       THEN JsNumber(scrollState.currentPage - 1)
                       ELSE Undefined
        selectedPageIndex == Get(Get(selected, "object"), "pageIndex")
    IN  IF currentPage # Undefined THEN currentPage.n
        ELSE IF "pageIndex" \in DOMAIN Get(selected, "object") THEN selectedPageIndex
        ELSE IF "pageIndex" \in DOMAIN source THEN source.pageIndex
        ELSE 0

\* lines 229-231: crypto.randomUUID(), or the id of the source with a random suffix
PasteNewId(source, cryptoAvailable, random) ==
    IF cryptoAvailable
    THEN <<"randomUUID", random>>
    ELSE <<IF "id" \in DOMAIN source THEN source.id ELSE <<"copied">>, "paste", random>>

\* lines 235-244: the rect moved by (dx, dy), in either of its two forms
PasteOffsetRect(rect) ==
    IF rect = Undefined THEN rect
    ELSE IF "js" \in DOMAIN rect
         THEN IF rect.js = "array" /\ Len(rect.items) = 4
              THEN JsArray(<<rect.items[1] + dx, rect.items[2] + dy,
                             rect.items[3] + dx, rect.items[4] + dy>>)
              ELSE rect
         ELSE IF "origin" \in DOMAIN rect /\ "size" \in DOMAIN rect
              THEN [origin |-> Position(rect.origin.x + dx, rect.origin.y + dy),
                    size |-> rect.size]
              ELSE rect

\* lines 233-244: { ...source, id: newId, created: new Date(), pageIndex }, rect moved
PasteClone(source, newId, now, pageIndex) ==
    LET spread == SpreadFields(source)
        fields == spread \cup {"id", "created", "pageIndex"}
    IN  [f \in fields |->
            CASE f = "id" -> newId
              [] f = "created" -> now
              [] f = "pageIndex" -> pageIndex
              [] f = "rect" -> PasteOffsetRect(source.rect)
              [] OTHER -> source[f]]

CreateSelectCommit_selectFirst(clone, context) ==
    <<[method |-> "selectAnnotation", pageIndex |-> clone.pageIndex, id |-> clone.id],
      [method |-> "createAnnotation", pageIndex |-> clone.pageIndex, annotation |-> clone,
       context |-> context],
      [method |-> "commit"]>>

\* lines 256-268 after the image is settled: createAnnotation, selectAnnotation, commit
CreateSelectCommit(clone, context) ==
    <<[method |-> "createAnnotation", pageIndex |-> clone.pageIndex, annotation |-> clone,
       context |-> context],
      [method |-> "selectAnnotation", pageIndex |-> clone.pageIndex, id |-> clone.id],
      [method |-> "commit"]>>

Log(level, message) == [level |-> level, message |-> message]

engine == <<sourceAnnotation, pages, options, pc, sourcePage, idx, annotations,
            clippedPages, thrown, uuidCount, second>>

\* pasteAnnotation(selected), up to its first await
pasteAnnotation ==
    /\ paste.pc = "idle"
    /\ \E selected \in Selections :
        IF capability = Undefined
        THEN /\ paste' = [pc |-> "done"]
             /\ UNCHANGED console
        ELSE IF ~readTextSupported
             THEN /\ paste' = [pc |-> "done"]
                  /\ console' = Append(console, Log("warn", "Paste failed"))
             ELSE /\ paste' = [pc |-> "readText", selected |-> selected]
                  /\ UNCHANGED console
    /\ UNCHANGED <<engine, clock, capability, scrollState, readTextSupported, clipboard,
                   canPaste, mounted, checks, copy, calls>>

\* readText() is rejected: the clipboard is not accessible
pasteAnnotation_readTextRejected ==
    /\ paste.pc = "readText"
    /\ paste' = [pc |-> "done"]
    /\ console' = Append(console, Log("warn", "Paste failed"))
    /\ UNCHANGED <<engine, clock, capability, scrollState, readTextSupported, clipboard,
                   canPaste, mounted, checks, copy, calls>>

\* readText() resolves: lines 187-268 up to the await of the stamp image
pasteAnnotation_readText ==
    /\ paste.pc = "readText"
    /\ LET text == clipboard
           decoded == decodeFromBase64(text)
           parsed == JSONparse(decoded)
           obj == parsed.value
           source == obj.data.annotation
           pageIndex == PastePageIndex(source, paste.selected)
           Ignored(message) ==
                /\ paste' = [pc |-> "done"]
                /\ console' = Append(console, Log("info", message))
                /\ UNCHANGED <<calls, clock>>
       IN  IF text = EmptyText
           THEN Ignored("Paste ignored: clipboard is empty or not accessible")
           ELSE IF decoded = JsNull
           THEN Ignored("Paste ignored: clipboard does not contain a base64-encoded comp-paste payload")
           ELSE IF parsed.threw
           THEN Ignored("Paste ignored: decoded clipboard text is not valid JSON")
           ELSE IF ~IsPastePayload(obj)
           THEN Ignored("Paste ignored: unexpected payload structure")
           ELSE \E cryptoAvailable \in BOOLEAN, now \in {clock, clock + 1} :
                LET clone == PasteClone(source, PasteNewId(source, cryptoAvailable, 1),
                                        Date(now), pageIndex)
                    base64 == Get(obj.data, "imageBase64")
                IN  /\ console' = Append(console, Log("log", "pageIndex, scrollState"))
                    /\ clock' = now
                    /\ IF /\ HasString(clone, "type", "STAMP")
                          /\ Truthy(base64) \/ Truthy(Get(clone, "imageSrc"))
                       THEN /\ paste' = [pc |-> "image", selected |-> paste.selected,
                                         clone |-> clone]
                            /\ UNCHANGED calls
                       ELSE /\ paste' = [pc |-> "done"]
                            /\ calls' = calls \o CreateSelectCommit(clone, "none")
    /\ UNCHANGED <<engine, capability, scrollState, readTextSupported, clipboard,
                   canPaste, mounted, checks, copy>>

\* base64ToImageData or loadImageDataIntrinsic resolves with the image data
pasteAnnotation_imageLoaded ==
    /\ paste.pc = "image"
    /\ calls' = calls \o CreateSelectCommit(paste.clone, "imageData")
    /\ paste' = [pc |-> "done"]
    /\ UNCHANGED <<engine, console, clock, capability, scrollState, readTextSupported,
                   clipboard, canPaste, mounted, checks, copy>>

\* the image fails to load or to decode: the catch of line 260
pasteAnnotation_imageFailed ==
    /\ paste.pc = "image"
    /\ calls' = calls \o CreateSelectCommit(paste.clone, "none")
    /\ paste' = [pc |-> "done"]
    /\ UNCHANGED <<engine, console, clock, capability, scrollState, readTextSupported,
                   clipboard, canPaste, mounted, checks, copy>>

NextPaste ==
    \/ pasteAnnotation
    \/ pasteAnnotation_readTextRejected
    \/ pasteAnnotation_readText
    \/ pasteAnnotation_imageLoaded
    \/ pasteAnnotation_imageFailed

\* generateDuplicateAnnotations is not called
EngineUnused ==
    /\ sourceAnnotation = Undefined
    /\ pages = <<>>
    /\ options = [includeSourcePage |-> "undefined"]
    /\ pc = "none"
    /\ sourcePage = Undefined
    /\ idx = 0
    /\ annotations = <<>>
    /\ clippedPages = <<>>
    /\ console = <<>>
    /\ thrown = NoError
    /\ uuidCount = 0
    /\ clock = 1
    /\ second = NoCall

\* the hook rendered with or without the capability and the scroll state, over
\* any clipboard, before pasteAnnotation is called
InitPaste ==
    /\ EngineUnused
    /\ capability \in {Undefined, Provided}
    /\ scrollState \in {Undefined, [currentPage |-> 3]}
    /\ readTextSupported \in BOOLEAN
    /\ clipboard \in ClipboardTexts
    /\ canPaste = FALSE
    /\ mounted = FALSE
    /\ checks = <<>>
    /\ copy = [pc |-> "idle"]
    /\ paste = [pc |-> "idle"]
    /\ calls = <<>>

SpecPaste == InitPaste /\ [][NextPaste]_vars

----------------------------------------------------------------------------
(* The calls of pasteAnnotation, C23, checked under SpecPaste *)

\* what the clipboard text decodes to: a JSON value, or undefined
ClipboardValue ==
    LET decoded == decodeFromBase64(clipboard)
    IN  IF clipboard = EmptyText \/ decoded = JsNull THEN Undefined
        ELSE IF decoded.kind # "json" THEN Undefined
        ELSE decoded.value

IsJsonObject(value) == value # Undefined /\ "js" \notin DOMAIN value

\* a JSON object with type 'comp-paste' and a data.annotation that is set
HoldsAnnotation ==
    /\ IsJsonObject(ClipboardValue)
    /\ "type" \in DOMAIN ClipboardValue
    /\ ClipboardValue.type = "comp-paste"
    /\ "data" \in DOMAIN ClipboardValue
    /\ IsJsonObject(ClipboardValue.data)
    /\ "annotation" \in DOMAIN ClipboardValue.data
    /\ ClipboardValue.data.annotation \notin {JsNull, JsNumber(0), JsString("")}

PasteFailed == \E i \in 1..Len(console) : console[i] = Log("warn", "Paste failed")

\* createAnnotation with the clone, selectAnnotation with the clone's page
\* index and id, commit: each once, in this order
CreatedSelectedCommitted ==
    /\ Len(calls) = 3
    /\ calls[1].method = "createAnnotation"
    /\ calls[1].pageIndex = calls[1].annotation.pageIndex
    /\ calls[2] = [method |-> "selectAnnotation",
                   pageIndex |-> calls[1].annotation.pageIndex,
                   id |-> calls[1].annotation.id]
    /\ calls[2].id[1] = "randomUUID" \/ calls[2].id[2] = "paste"
    /\ calls[3] = [method |-> "commit"]

PasteCallsInOrder ==
    /\ calls # <<>> => HoldsAnnotation /\ CreatedSelectedCommitted
    /\ ~HoldsAnnotation => calls = <<>>
    /\ (/\ paste.pc = "done"
        /\ capability # Undefined
        /\ ~PasteFailed
        /\ HoldsAnnotation) => CreatedSelectedCommitted

\* the three calls are made once: nothing follows them
CalledOnce == calls # <<>> => calls' = calls

\* C23: pasteAnnotation calls the capability only when the clipboard text
\* decodes to a JSON object of type 'comp-paste' whose data.annotation is
\* set; then, the capability being provided and the clipboard readable, it
\* calls createAnnotation once, selectAnnotation once with the clone's page
\* index and new id, and commit once, in this order, also for a stamp whose
\* image fails to load or decode; for every other clipboard it calls none
C23_PasteCallsInOrder == []PasteCallsInOrder /\ [][CalledOnce]_vars

\* a stamp copied with its image is pasted, the image fails to decode, and
\* the clone is created without image data, selected and committed
C23_Witness ==
    /\ paste.pc = "done"
    /\ clipboard = encodeToBase64(JSONstringify(PayloadWithImage(HookStamp, JsString("iVBOR"))))
    /\ Len(calls) = 3
    /\ calls[1].method = "createAnnotation"
    /\ calls[1].context = "none"
    /\ calls[1].annotation.type = "STAMP"
    /\ calls[1].annotation.rect = Rect(1 + dx, 1 + dy, 1, 1)
    /\ calls[2].method = "selectAnnotation"
    /\ calls[2].pageIndex = 2
    /\ calls[3].method = "commit"

----------------------------------------------------------------------------
(* checkClipboard, the listeners that start it, and copyAnnotation.

   readText and writeText are the platform's: the clipboard is read or
   written at some moment after the call, and the continuation of the await
   runs at some later moment; other continuations may run in between. *)

\* checkClipboard runs that may be awaiting readText at the same time
MaxChecks == 2

RemoveAt(seq, i) == [k \in 1..(Len(seq) - 1) |-> IF k < i THEN seq[k] ELSE seq[k + 1]]

\* lines 126-136: what checkClipboard makes of the text it has read
CanPasteOf(text) ==
    LET decoded == decodeFromBase64(text)
        parsed == JSONparse(decoded)
        obj == parsed.value
    IN  IF text = EmptyText THEN FALSE
        ELSE IF decoded = JsNull THEN FALSE
        ELSE IF parsed.threw THEN FALSE
        ELSE /\ Truthy(obj)
             /\ HasString(obj, "type", "comp-paste")
             /\ Truthy(Get(Get(obj, "data"), "annotation"))

\* checkClipboard(), up to its await
checkClipboard ==
    /\ Len(checks) < MaxChecks
    /\ IF ~readTextSupported
       THEN /\ canPaste' = FALSE
            /\ UNCHANGED checks
       ELSE /\ checks' = Append(checks, [pc |-> "readText"])
            /\ UNCHANGED canPaste

\* the effect of lines 142-155 on mount: a first check, the listeners added
Mount ==
    /\ ~mounted
    /\ mounted' = TRUE
    /\ checkClipboard
    /\ UNCHANGED <<engine, console, clock, capability, scrollState, readTextSupported,
                   clipboard, copy, paste, calls>>

\* window 'focus'
onFocus ==
    /\ mounted
    /\ checkClipboard
    /\ UNCHANGED <<engine, console, clock, capability, scrollState, readTextSupported,
                   clipboard, mounted, copy, paste, calls>>

\* document 'visibilitychange'
onVisibilityChange ==
    /\ mounted
    /\ \E visibilityState \in {"visible", "hidden"} :
        IF visibilityState = "visible"
        THEN checkClipboard
        ELSE UNCHANGED <<canPaste, checks>>
    /\ UNCHANGED <<engine, console, clock, capability, scrollState, readTextSupported,
                   clipboard, mounted, copy, paste, calls>>

\* the platform serves a readText: it reads the clipboard, or refuses
navigator_clipboard_readText ==
    /\ \E i \in 1..Len(checks) :
        /\ checks[i].pc = "readText"
        /\ \/ checks' = [checks EXCEPT ![i] = [pc |-> "resolved", text |-> clipboard]]
           \/ checks' = [checks EXCEPT ![i] = [pc |-> "rejected"]]
    /\ UNCHANGED <<engine, console, clock, capability, scrollState, readTextSupported,
                   clipboard, canPaste, mounted, copy, paste, calls>>

\* checkClipboard after its await, lines 126-136
checkClipboard_readText ==
    /\ \E i \in 1..Len(checks) :
        /\ checks[i].pc = "resolved"
        /\ canPaste' = CanPasteOf(checks[i].text)
        /\ checks' = RemoveAt(checks, i)
    /\ UNCHANGED <<engine, console, clock, capability, scrollState, readTextSupported,
                   clipboard, mounted, copy, paste, calls>>

\* checkClipboard when readText rejects, line 138
checkClipboard_readTextRejected ==
    /\ \E i \in 1..Len(checks) :
        /\ checks[i].pc = "rejected"
        /\ canPaste' = FALSE
        /\ checks' = RemoveAt(checks, i)
    /\ UNCHANGED <<engine, console, clock, capability, scrollState, readTextSupported,
                   clipboard, mounted, copy, paste, calls>>

\* copyAnnotation(selected) of the rendered hook, up to its first await
copyAnnotation ==
    /\ mounted
    /\ copy.pc = "idle"
    /\ \E selected \in {Undefined} \cup {[object |-> a] : a \in HookAnnotations} :
        IF selected = Undefined
        THEN copy' = [pc |-> "returned"]
        ELSE LET original == selected.object
                 payload == Payload(original)
             IN  IF HasString(original, "type", "STAMP") /\ Truthy(Get(original, "imageSrc"))
                 THEN copy' = [pc |-> "image", payload |-> payload]
                 ELSE copy' = [pc |-> "writeText",
                               text |-> encodeToBase64(JSONstringify(payload))]
    /\ UNCHANGED <<engine, console, clock, capability, scrollState, readTextSupported,
                   clipboard, canPaste, mounted, checks, paste, calls>>

\* imageSrcToBase64 resolves, lines 166-175
copyAnnotation_imageLoaded ==
    /\ copy.pc = "image"
    /\ LET payload == PayloadWithImage(copy.payload.data.annotation, JsString("iVBOR"))
       IN  copy' = [pc |-> "writeText", text |-> encodeToBase64(JSONstringify(payload))]
    /\ UNCHANGED <<engine, console, clock, capability, scrollState, readTextSupported,
                   clipboard, canPaste, mounted, checks, paste, calls>>

\* imageSrcToBase64 rejects: the annotation is copied without its image
copyAnnotation_imageFailed ==
    /\ copy.pc = "image"
    /\ copy' = [pc |-> "writeText", text |-> encodeToBase64(JSONstringify(copy.payload))]
    /\ UNCHANGED <<engine, console, clock, capability, scrollState, readTextSupported,
                   clipboard, canPaste, mounted, checks, paste, calls>>

\* the platform serves the writeText: it writes the clipboard, or refuses
navigator_clipboard_writeText ==
    /\ copy.pc = "writeText"
    /\ \/ /\ clipboard' = copy.text
          /\ copy' = [pc |-> "written", text |-> copy.text]
       \/ /\ copy' = [pc |-> "rejected"]
          /\ UNCHANGED clipboard
    /\ UNCHANGED <<engine, console, clock, capability, scrollState, readTextSupported,
                   canPaste, mounted, checks, paste, calls>>

\* copyAnnotation after the await of writeText, line 176
copyAnnotation_writeText ==
    /\ copy.pc = "written"
    /\ canPaste' = TRUE
    /\ copy' = [pc |-> "done", text |-> copy.text]
    /\ UNCHANGED <<engine, console, clock, capability, scrollState, readTextSupported,
                   clipboard, mounted, checks, paste, calls>>

\* copyAnnotation when writeText rejects, line 179
copyAnnotation_writeTextRejected ==
    /\ copy.pc = "rejected"
    /\ console' = Append(console, Log("warn", "Copy failed"))
    /\ copy' = [pc |-> "failed"]
    /\ UNCHANGED <<engine, clock, capability, scrollState, readTextSupported,
                   clipboard, canPaste, mounted, checks, paste, calls>>

NextClipboard ==
    \/ Mount
    \/ onFocus
    \/ onVisibilityChange
    \/ navigator_clipboard_readText
    \/ checkClipboard_readText
    \/ checkClipboard_readTextRejected
    \/ copyAnnotation
    \/ copyAnnotation_imageLoaded
    \/ copyAnnotation_imageFailed
    \/ navigator_clipboard_writeText
    \/ copyAnnotation_writeText
    \/ copyAnnotation_writeTextRejected

\* the hook before it is mounted, over a clipboard that holds nothing, foreign
\* text, a foreign JSON document or an annotation copied earlier
InitClipboard ==
    /\ EngineUnused
    /\ capability = Provided
    /\ scrollState = Undefined
    /\ readTextSupported \in BOOLEAN
    /\ clipboard \in {EmptyText, [kind |-> "plain"],
                      encodeToBase64(JSONstringify([type |-> "other"])),
                      encodeToBase64(JSONstringify(Payload(HookSquare)))}
    /\ canPaste = FALSE
    /\ mounted = FALSE
    /\ checks = <<>>
    /\ copy = [pc |-> "idle"]
    /\ paste = [pc |-> "idle"]
    /\ calls = <<>>

SpecClipboard == InitClipboard /\ [][NextClipboard]_vars

----------------------------------------------------------------------------
(* canPaste after a copy, C24, checked under SpecClipboard *)

\* copyAnnotation has written its payload and run to its end, and the
\* clipboard still holds what it wrote
CopiedAndUnchanged == copy.pc = "done" /\ clipboard = copy.text

\* C24: once copyAnnotation has written its payload to the clipboard and
\* set canPaste, canPaste is true for as long as the clipboard holds that
\* payload, whatever checkClipboard runs started by mount, focus or
\* visibility change are interleaved with it
C24_CanPasteAfterCopy == CopiedAndUnchanged => canPaste

====
